---- MODULE Spec2Model ----
(***************************************************************************)
(* A model of the kOS language server's analysis front end:                *)
(*   - the recursive-descent Parser (server/src/parser/parser.ts),         *)
(*   - the SymbolTableBuilder (server/src/analysis/symbolTableBuilder.ts), *)
(*   - the FuncResolver of the same file, which drives the builder,        *)
(*   - the AnalysisService that links the symbol tables of the documents,  *)
(*   - the DocumentService (server/src/services/documentService.ts),       *)
(*   - the types of the type checker (GenericType, GenericVariadicType).   *)
(* Each component has its own specifications (SpecParser, SpecScope, ...); *)
(* the variables of the other components stay at their initial values.     *)
(***************************************************************************)
EXTENDS Integers, Sequences, FiniteSets, TLC

VARIABLES
    \* ---- Parser ----
    tokens,        \* Parser.tokens: the token types, the appended eof included
    current,       \* Parser.current (0-based, as in the source)
    runInsts,      \* Parser.runInsts
    instructions,  \* parse(): the local `instructions`
    parseErrors,   \* parse(): the local `parseErrors`
    parserPc,      \* "parsing" in the loop of parse(); "returned" once its try
                   \* block returned, "caught" once its catch block returned
    parseResult,   \* what parse() returned
    attempts,      \* history: one record per iteration of the loop of parse()
    declLog,       \* history: one record per declaration() call, nested ones included
    syncLog,       \* history: one record per return of synchronize()
    blockLog,      \* history: one record per brace block that found no closing brace
    \* ---- SymbolTableBuilder ----
    rootScope,       \* the scope tree: the scope of every node, keyed by the
                     \* node's child-index path from the root
    activeScopePath, \* SymbolTableBuilder.activeScopePath
    backTrackPath,   \* SymbolTableBuilder.backTrackPath
    childSymbolTables, \* the root scopes of the dependency symbol tables, in
                     \* the order they were added
    trackers,        \* the symbol trackers, keyed by their declaring name token
    tokenTracker,    \* token.tracker: the tracker slot of every name token
    returned,        \* the diagnostics the last builder call returned
    scopeError,      \* a builder call threw (no scope node at the active path)
    lastOp,          \* history: the last builder call and what it saw
    pass,            \* 1 in the first traversal, one more after each rewindScope
    firstPass,       \* history: the beginScope / endScope calls of the first pass
    replay,          \* history: those of the pass under way, after a rewindScope
    openScopes,      \* history: beginScope calls not yet matched by an endScope
    nextToken,       \* the name tokens handed to the builder so far, plus one
    declaredAs,      \* history: the scope type each tracker was declared with
    \* ---- FuncResolver ----
    syntaxTree,      \* FuncResolver.syntaxTree: the instructions of the script
    resolverPc,      \* where resolve() is: "idle", the step under way, "returned"
    resolveErrors,   \* the errors resolveInsts has accumulated so far
    resolved,        \* what resolve() returned
    \* ---- AnalysisService ----
    documents,       \* the text of every document, as the document service has it
    documentInfos,   \* AnalysisService.documentInfos: the info cached per uri
    symbolTables,    \* every symbol table built so far, the replaced ones included
    nextTable,       \* the symbol tables built so far, plus one
    validations,     \* the validateDocument and getInfo calls so far
    lastCall,        \* history: the last call of the service and what it returned
    \* ---- DocumentService ----
    clientDocs,      \* DocumentService.clientDocs: the document held per uri
    serverDocs,      \* DocumentService.serverDocs
    docReady,        \* ready(): the path resolver has its volume 0 uri
    loadCalls,       \* the loadDocument / loadDocumentFromScript calls so far
    loaderCalls,     \* how often documentLoader.load was invoked, per uri
    nextDocument,    \* the TextDocument objects created so far, plus one
    changeHandled,   \* the calls of the change handler, in order
    closeHandled,    \* the calls of the close handler, in order
    latestText,      \* history: the text the client last sent, per uri
    cacheRuns,       \* the cacheDocuments runs: the files each has yet to get
    \* ---- type engine (GenericType, GenericVariadicType) ----
    superType,       \* GenericType.superType, per type
    coercibleTypes,  \* GenericType.coercibleTypes, per type
    suffixes,        \* GenericType.suffixes, per type
    operators,       \* GenericType.operators of one type, per operator kind
    concreteTypes,   \* GenericVariadicType.concreteTypes
    nextConcrete,    \* the VariadicType objects created so far, plus one
    typeCalls,       \* the calls on the types so far
    typeReturned,    \* history: the last call on a type and what it returned
    instantiated,    \* history: the toConcreteType calls, in order
    \* ---- position utilities ----
    ranges,          \* the two ranges handed to rangeIntersection
    intersections    \* the rangeIntersection calls on them, in order

parserVars == <<tokens, current, runInsts, instructions, parseErrors, parserPc,
                parseResult, attempts, declLog, syncLog, blockLog>>
scopeVars == <<rootScope, activeScopePath, backTrackPath, childSymbolTables,
               trackers, tokenTracker, returned, scopeError, lastOp, pass,
               firstPass, replay, openScopes, nextToken, declaredAs>>
resolverVars == <<syntaxTree, resolverPc, resolveErrors, resolved>>
serviceVars == <<documents, documentInfos, symbolTables, nextTable, validations,
                 lastCall>>
docVars == <<clientDocs, serverDocs, docReady, loadCalls, loaderCalls,
             nextDocument, changeHandled, closeHandled, latestText,
             cacheRuns>>
typeVars == <<superType, coercibleTypes, suffixes, operators, concreteTypes,
              nextConcrete, typeCalls, typeReturned, instantiated>>
positionVars == <<ranges, intersections>>
vars == <<parserVars, scopeVars, resolverVars, serviceVars, docVars, typeVars,
          positionVars>>

\* what a call of the builder, a step of parse(), a step of resolve() and a
\* call of the analysis service leave alone
outsideScope ==
    <<parserVars, resolverVars, serviceVars, docVars, typeVars,
      positionVars>>
outsideParser ==
    <<scopeVars, resolverVars, serviceVars, docVars, typeVars,
      positionVars>>
outsideResolver ==
    <<parserVars, serviceVars, docVars, typeVars,
      positionVars>>
outsideService ==
    <<parserVars, scopeVars, resolverVars, docVars, typeVars,
      positionVars>>
outsideDocs ==
    <<parserVars, scopeVars, resolverVars, serviceVars, typeVars,
      positionVars>>
outsideTypes ==
    <<parserVars, scopeVars, resolverVars, serviceVars, docVars,
      positionVars>>
outsidePositions ==
    <<parserVars, scopeVars, resolverVars, serviceVars, docVars, typeVars>>

(***************************************************************************)
(* Bounds                                                                  *)
(***************************************************************************)
\* the longest token stream over all of TokenTypes handed to the Parser (the
\* eof token not counted)
MaxTokens == 4

\* the longest token stream over BlockTokenTypes or over PathTokenTypes
MaxLongTokens == 6

\* the deepest nesting of scopes below the root
MaxDepth == 3

\* the most scope nodes below the root
MaxScopes == 3

\* the most traversals of the scope tree
MaxPasses == 3

\* the most name tokens handed to the builder (declarations and uses)
MaxNameTokens == 4

\* the largest script resolved: its scopes below the root plus its name tokens
MaxProgram == 5

\* the most instructions of a script handed to FuncResolver
MaxInsts == 3

\* the most tokens and the most instructions of a document whose parser and
\* resolver meet exceptions
MaxFaultTokens == 2
MaxFaultInsts == 2

\* the most validateDocument and getInfo calls of the analysis service
MaxValidations == 3

\* the most events (notifications of the client, load calls and their
\* resumptions) of the document service
MaxDocEvents == 3

\* the most setVolume0Uri calls of the document service
MaxVolumes == 1

\* the last line and the last character of a position
MaxLine == 1
MaxCharacter == 2

\* the most rangeIntersection calls on one pair of ranges
MaxRangeCalls == 2

\* the most calls on the types of the hierarchy
MaxTypeCalls == 3

\* the most [name, type] pairs of one addSuffixes call
MaxSuffixes == 2

\* the most calls on the operators of a type and on the generic types
MaxOperatorCalls == 3

\* the most [kind, operator] pairs of one addOperator call
MaxOperators == 2

(***************************************************************************)
(* PARSER                                                                  *)
(***************************************************************************)
\* The token types the modelled streams are drawn from.  The declaration
\* keywords (declare, local, global, parameter, function, lock) are left out:
\* their parse functions build on parser/declare.ts, which is not available.
TokenTypes == {"period", "curlyOpen", "curlyClose", "identifier", "plus",
               "print", "run", "runPath", "bracketOpen", "bracketClose", "if"}

\* the token types of the longer streams: statements and blocks of
\* statements, and the run instructions that take their path in brackets
BlockTokenTypes == {"period", "identifier", "run", "curlyOpen", "curlyClose"}

PathTokenTypes == {"period", "identifier", "runPath", "bracketOpen", "bracketClose"}

\* the tokens synchronize() stops in front of
SyncTokens == {"declare", "function", "parameter", "lock", "local", "global",
               "stage", "clearscreen", "preserve", "reboot", "shutdown",
               "edit", "add", "remove",
               "unset", "unlock", "set",
               "if", "until", "from", "when", "return", "break", "switch",
               "for", "on", "toggle", "wait",
               "log", "copy", "rename", "delete", "run", "runPath",
               "runOncePath", "compile", "list", "print",
               "curlyClose"}

\* the subclasses of Inst.Inst and of Expr.Expr the parser names in its errors
InstConstructors == {"Inst.Block", "Inst.Expr", "Inst.OnOff", "Inst.If",
                     "Inst.Print", "Inst.Run", "Inst.RunPath",
                     "Inst.RunPathOnce"}
ExprConstructors == {"Expr.Call", "Expr.Grouping", "Expr.AnonymousFunction",
                     "Expr.ArrayBracket", "Expr.ArrayIndex"}

Undefined == ""

\* ---- tokens and cursor ----
\* tokens[i] of the source (0-based); out of range reads give undefined
tokenAt(i) == IF i >= 0 /\ i < Len(tokens) THEN tokens[i + 1] ELSE Undefined

peek(s) == tokenAt(s.cur)

previous(s) == tokenAt(s.cur - 1)

isAtEnd(s) == peek(s) = "eof"

check(s, tokenType) == IF isAtEnd(s) THEN FALSE ELSE peek(s) = tokenType

advance(s) == IF ~isAtEnd(s) THEN [s EXCEPT !.cur = s.cur + 1] ELSE s

\* matchToken: whether one of the types is found, and the state after it
matchFound(s, types) == \E t \in types : check(s, t)

matchToken(s, types) == IF matchFound(s, types) THEN advance(s) ELSE s

isValidIdentifier(tokenType) == tokenType = "identifier"

identifierCheck(s) == IF isAtEnd(s) THEN FALSE ELSE isValidIdentifier(peek(s))

\* ---- syntax nodes and results ----
\* a node: its class, the cursor where it starts and where it ends, its children
Node(tag, start, end, kids) ==
    [tag |-> tag, start |-> start, end |-> end, kids |-> kids]

NoNode == Node("None", 0, 0, <<>>)

\* ---- parse errors ----
failedUnknown == [inst |-> Undefined, expr |-> Undefined]

failedExpr(expr) == [inst |-> Undefined, expr |-> expr]

failedInst(inst) == [inst |-> inst, expr |-> Undefined]

ParseError(token, failed, message) ==
    [token |-> token, inst |-> failed.inst, expr |-> failed.expr,
     message |-> message, inner |-> <<>>]

NoError == ParseError(-1, failedUnknown, "")

\* error(token, failed, message): `token` is the index of the token
error(token, failed, message) ==
    IF failed = Undefined THEN ParseError(token, failedUnknown, message)
    ELSE IF failed \in ExprConstructors
         THEN ParseError(token, failedExpr(failed), message)
    ELSE IF failed \in InstConstructors
         THEN ParseError(token, failedInst(failed), message)
    ELSE ParseError(token, failedUnknown, message)

\* ---- results: a value, or a thrown ParseError, or a thrown TypeError ----
Ok(s, node, errors) ==
    [thrown |-> "none", s |-> s, node |-> node, errors |-> errors,
     err |-> NoError]

Throw(s, err) ==
    [thrown |-> "ParseError", s |-> s, node |-> NoNode, errors |-> <<>>,
     err |-> err]

TypeErrorThrown(s) ==
    [thrown |-> "TypeError", s |-> s, node |-> NoNode, errors |-> <<>>,
     err |-> NoError]

\* consumeTokenThrow
consumeTokenThrow(s, message, failed, types) ==
    IF matchFound(s, types) THEN Ok(advance(s), NoNode, <<>>)
    ELSE Throw(s, error(s.cur - 1, failed, message))

\* consumeIdentifierThrow
consumeIdentifierThrow(s, message, failed) ==
    IF identifierCheck(s) THEN Ok(advance(s), NoNode, <<>>)
    ELSE Throw(s, error(s.cur - 1, failed, message))

\* terminal
terminal(s, failed) == consumeTokenThrow(s, "Expected \".\".", failed, {"period"})

\* ---- synchronize ----
\* the loop of synchronize(): the cursor it returns with, or -1 when
\* previous() is undefined and reading its type throws
RECURSIVE synchronizeLoop(_)

\* a loop that returns at the first token it looks at
synchronizeLoopFirst(s) == s.cur

synchronizeLoop(s) ==
    IF isAtEnd(s) THEN s.cur
    ELSE IF previous(s) = Undefined THEN -1
    ELSE IF previous(s) = "period" THEN s.cur
    ELSE IF peek(s) \in SyncTokens THEN s.cur
    ELSE synchronizeLoop(advance(s))

\* a synchronize that leaves the cursor where the error was raised
synchronizeSkipped(s, failed) == s.cur

synchronize(s, failed) ==
    synchronizeLoop(IF failed.inst = Undefined THEN advance(s) ELSE s)

\* ---- control flow of the parse functions ----
\* `F` applied to the value `v`, which is evaluated once
Let(v, F(_)) == F(v)

\* a call whose exception propagates: the thrown result `r` itself, or else
\* the rest of the function, `F`, applied to the returned result
Then(r, F(_)) == IF r.thrown # "none" THEN r ELSE F(r)

\* ---- expressions ----
RECURSIVE expression(_, _)
RECURSIVE declaration(_)
RECURSIVE argumentsLoop(_, _, _)
RECURSIVE suffixTermLoop(_, _)
RECURSIVE unary(_)
RECURSIVE binaryLoop(_, _)
RECURSIVE blockLoop(_, _, _)

LiteralTokens == {"false", "true", "fileIdentifier", "string", "integer", "double"}

\* the do-while loop of arguments
argumentsLoop(s, args, errors) ==
    Then(expression(s, Undefined), LAMBDA arg :
        IF matchFound(arg.s, {"comma"})
        THEN argumentsLoop(advance(arg.s), Append(args, arg.node),
                           errors \o arg.errors)
        ELSE Ok(arg.s,
                Node("Arguments", arg.node.start, arg.s.cur, Append(args, arg.node)),
                errors \o arg.errors))

\* arguments
arguments(s) ==
    IF ~isAtEnd(s) /\ ~check(s, "bracketClose")
    THEN argumentsLoop(s, <<>>, <<>>)
    ELSE Ok(s, Node("Arguments", s.cur, s.cur, <<>>), <<>>)

\* functionTrailer: the cursor is behind the "("
functionTrailer(s, callee) ==
    Then(arguments(s), LAMBDA args :
    Then(consumeTokenThrow(args.s, "Expect \")\" after arguments.", "Expr.Call",
                           {"bracketClose"}), LAMBDA close :
        Ok(close.s,
           Node("Call", callee.start, close.s.cur, <<callee>> \o args.node.kids),
           args.errors)))

\* arrayBracket: the cursor is behind the "["
arrayBracket(s, array) ==
    Then(expression(s, Undefined), LAMBDA index :
    Then(consumeTokenThrow(index.s, "Expected \"]\" at end of array index.",
                           "Expr.ArrayBracket", {"squareClose"}), LAMBDA close :
        Ok(close.s,
           Node("ArrayBracket", array.start, close.s.cur, <<array, index.node>>),
           index.errors)))

\* arrayIndex: the cursor is behind the "#"
arrayIndex(s, array) ==
    Then(consumeTokenThrow(s, "Expected integer or identifer.", "Expr.ArrayIndex",
                           {"integer", "identifier"}), LAMBDA index :
        Ok(index.s, Node("ArrayIndex", array.start, index.s.cur, <<array>>), <<>>))

\* atom
atom(s, isTrailer) ==
    IF matchFound(s, LiteralTokens)
    THEN Ok(advance(s), Node("Literal", s.cur, s.cur + 1, <<>>), <<>>)
    ELSE IF isValidIdentifier(peek(s))
    THEN Ok(advance(s), Node("Variable", s.cur, advance(s).cur, <<>>), <<>>)
    ELSE IF matchFound(s, {"bracketOpen"})
    THEN Then(expression(advance(s), Undefined), LAMBDA expr :
         Then(consumeTokenThrow(expr.s, "Expect \")\" after expression",
                                "Expr.Grouping", {"bracketClose"}), LAMBDA close :
             Ok(close.s, Node("Grouping", s.cur, close.s.cur, <<expr.node>>),
                expr.errors)))
    ELSE Throw(s, error(s.cur, Undefined, "Expected expression."))

\* the trailer loop of suffixTerm, entered with what atom() gave
suffixTermLoop(expr, isTrailer) ==
    IF expr.thrown # "none" THEN expr
    ELSE IF matchFound(expr.s, {"arrayIndex"})
    THEN Then(arrayIndex(advance(expr.s), expr.node), LAMBDA index :
             suffixTermLoop(Ok(index.s, index.node, expr.errors \o index.errors),
                            isTrailer))
    ELSE IF matchFound(expr.s, {"squareOpen"})
    THEN Then(arrayBracket(advance(expr.s), expr.node), LAMBDA bracket :
             suffixTermLoop(Ok(bracket.s, bracket.node,
                               expr.errors \o bracket.errors), isTrailer))
    ELSE IF matchFound(expr.s, {"bracketOpen"})
    THEN Then(functionTrailer(advance(expr.s), expr.node), LAMBDA trailer :
             suffixTermLoop(Ok(trailer.s, trailer.node,
                               expr.errors \o trailer.errors), isTrailer))
    ELSE IF matchFound(expr.s, {"atSign"})
    THEN Ok(advance(expr.s),
            Node("Delegate", expr.node.start, expr.s.cur + 1, <<expr.node>>),
            expr.errors)
    ELSE expr

\* suffixTerm
suffixTerm(s, isTrailer) == suffixTermLoop(atom(s, isTrailer), isTrailer)

\* suffix.  No colon is in TokenTypes: the trailer loop (suffixTrailer) never
\* runs, and suffix() returns what suffixTerm(false) returned.
suffix(s) == suffixTerm(s, FALSE)

\* suffixCatch
suffixCatch(s, inst) ==
    Let(suffix(s), LAMBDA r :
        IF r.thrown = "ParseError" THEN [r EXCEPT !.err.inst = inst] ELSE r)

\* factor.  The power token is not in TokenTypes: the loop never runs, and
\* factor() returns what suffix() returned.
factor(s) == suffix(s)

\* unary
unary(s) ==
    IF matchFound(s, {"plus", "minus", "not", "defined"})
    THEN Then(unary(advance(s)), LAMBDA operand :
             Ok(operand.s, Node("Unary", s.cur, operand.s.cur, <<operand.node>>),
                operand.errors))
    ELSE factor(s)

\* multiplication.  Its operator tokens (multi, div) are not in TokenTypes:
\* the loop of binaryExpression never runs, and it returns what unary() returned.
multiplication(s) == unary(s)

\* the while loop of binaryExpression(recurse, types) with multiplication as
\* `recurse`, entered with what the first recurse() gave
binaryLoop(expr, types) ==
    IF expr.thrown # "none" THEN expr
    ELSE IF matchFound(expr.s, types)
    THEN Then(multiplication(advance(expr.s)), LAMBDA right :
             binaryLoop(Ok(right.s,
                           Node("Binary", expr.node.start, right.s.cur,
                                <<expr.node, right.node>>),
                           expr.errors \o right.errors), types))
    ELSE expr

\* addition: binaryExpression(multiplication, plus, minus)
addition(s) == binaryLoop(multiplication(s), {"plus", "minus"})

\* comparison, equality, and, or.  Their operator tokens are not in
\* TokenTypes: the loop of binaryExpression never runs in any of them, and each
\* returns what its `recurse` returned.
comparison(s) == addition(s)

equality(s) == comparison(s)

and(s) == equality(s)

or(s) == and(s)

\* the statement loop shared by instructionBlock and anonymousFunction
blockLoop(s, declarations, errors) ==
    IF ~check(s, "curlyClose") /\ ~isAtEnd(s)
    THEN Then(declaration(s), LAMBDA r :
             blockLoop(r.s, Append(declarations, r.node), errors \o r.errors))
    ELSE Ok(s, Node("Instructions", s.cur, s.cur, declarations), errors)

\* what a brace block that found no closing brace leaves in the history
missingClose(s, open, failed, err, collected) ==
    [s EXCEPT !.blocks = Append(@, [open |-> open, failed |-> failed,
                                     at |-> s.cur, error |-> err,
                                     collected |-> collected])]

\* anonymousFunction: the cursor is behind the "{"
anonymousFunction(s) ==
    Then(blockLoop(s, <<>>, <<>>), LAMBDA body :
    Let(consumeTokenThrow(body.s, "Expected \"}\" to finish instruction block",
                          "Expr.AnonymousFunction", {"curlyClose"}), LAMBDA close :
        IF close.thrown # "none"
        THEN Throw(missingClose(close.s, s.cur - 1, "Expr.AnonymousFunction",
                                close.err, body.errors),
                   close.err)
        ELSE IF Len(body.errors) > 0
        THEN Throw(close.s,
                   [error(s.cur - 1, "Expr.AnonymousFunction",
                          "Error found in this block.")
                    EXCEPT !.inner = body.errors])
        ELSE Ok(close.s,
                Node("AnonymousFunction", s.cur - 1, close.s.cur, body.node.kids),
                body.errors)))

\* expression
expression(s, inst) ==
    Let(IF matchFound(s, {"curlyOpen"}) THEN anonymousFunction(advance(s))
        ELSE or(s), LAMBDA r :
        IF r.thrown = "ParseError" THEN [r EXCEPT !.err.inst = inst] ELSE r)

\* ---- instructions ----
\* an addRunInst that pushes nothing
addRunInstSkipped(s, inst, errors) == Ok(s, inst, errors)

\* addRunInst
addRunInst(s, inst, errors) ==
    Ok([s EXCEPT !.runs = Append(@, inst)], inst, errors)

\* consumeTokenReturn of the closing brace of an instruction block, and the
\* throw that bundles the inner errors when it returned an error
blockClose(body, open) ==
    IF matchFound(body.s, {"curlyClose"})
    THEN Ok(advance(body.s),
            Node("Block", open, body.s.cur + 1, body.node.kids), body.errors)
    ELSE Let([error(body.s.cur - 1, "Inst.Block",
                    "Expected \"}\" to finish instruction block")
              EXCEPT !.inner = body.errors], LAMBDA close :
             Throw(missingClose(body.s, open, "Inst.Block", close, body.errors),
                   close))

\* instructionBlock: the cursor is behind the "{"
instructionBlock(s) ==
    Then(blockLoop(s, <<>>, <<>>), LAMBDA body :
        blockClose(body, s.cur - 1))

\* onOff: the cursor is behind "on" or "off"
onOff(s, suffixNode) ==
    Then(terminal(s, "Inst.OnOff"), LAMBDA term :
        Ok(term.s, Node("OnOff", suffixNode.start, term.s.cur, <<suffixNode>>), <<>>))

\* identifierLedInstruction
identifierLedInstruction(s) ==
    Then(suffixCatch(s, "Inst.Expr"), LAMBDA sfx :
        IF matchFound(sfx.s, {"on", "off"})
        THEN Then(onOff(advance(sfx.s), sfx.node), LAMBDA r :
                 Ok(r.s, r.node, sfx.errors \o r.errors))
        ELSE Then(terminal(sfx.s, "Inst.Expr"), LAMBDA term :
                 Ok(term.s, Node("Expr", s.cur, term.s.cur, <<sfx.node>>),
                    sfx.errors)))

\* the rest of ifInst behind the instruction: the optional period and else
ifElse(ifToken, conditionResult, inst, s1) ==
    IF matchFound(s1, {"else"})
    THEN Then(declaration(advance(s1)), LAMBDA elseResult :
         Let(matchToken(elseResult.s, {"period"}), LAMBDA s2 :
             Ok(s2,
                Node("If", ifToken, s2.cur,
                     <<conditionResult.node, inst.node,
                       Node("Else", s1.cur, elseResult.s.cur, <<elseResult.node>>)>>),
                conditionResult.errors \o inst.errors \o elseResult.errors)))
    ELSE Ok(s1, Node("If", ifToken, s1.cur, <<conditionResult.node, inst.node>>),
            inst.errors)

\* ifInst: the cursor is behind "if"
ifInst(s) ==
    Then(expression(s, "Inst.If"), LAMBDA conditionResult :
    Then(declaration(conditionResult.s), LAMBDA inst :
    Let(matchToken(inst.s, {"period"}), LAMBDA s1 :
        ifElse(s.cur - 1, conditionResult, inst, s1))))

\* run: the cursor is behind "run"
run(s) ==
    Then(consumeTokenThrow(
             matchToken(s, {"once"}),
             "Expected string or fileidentifier following keyword \"run\".",
             "Inst.Run", {"string", "identifier", "fileIdentifier"}),
         LAMBDA identifier :
    Then(IF matchFound(identifier.s, {"bracketOpen"})
         THEN arguments(advance(identifier.s))
         ELSE Ok(identifier.s, NoNode, <<>>), LAMBDA args :
    Then(IF matchFound(identifier.s, {"bracketOpen"})
         THEN consumeTokenThrow(args.s, "Expected \")\" after \"run\" arguments.",
                                "Inst.Run", {"bracketClose"})
         ELSE Ok(args.s, NoNode, <<>>), LAMBDA close :
    Then(IF matchFound(close.s, {"on"})
         THEN arguments(advance(close.s))
         ELSE Ok(close.s, NoNode, <<>>), LAMBDA onArgs :
    Then(IF matchFound(close.s, {"on"})
         THEN expression(onArgs.s, "Inst.Run")
         ELSE Ok(onArgs.s, NoNode, <<>>), LAMBDA expr :
    Then(terminal(expr.s, "Inst.Run"), LAMBDA term :
        addRunInst(term.s,
                   Node("Run", s.cur - 1, term.s.cur,
                        (IF matchFound(close.s, {"on"}) THEN onArgs.node.kids
                         ELSE args.node.kids)
                        \o (IF matchFound(close.s, {"on"}) THEN <<expr.node>>
                            ELSE <<>>)),
                   (IF matchFound(close.s, {"on"}) THEN onArgs.errors
                    ELSE args.errors) \o expr.errors)))))))

\* the class a runPath / runOncePath error names
runPathFailed(name) == IF name = "RunPath" THEN "Inst.RunPath" ELSE "Inst.RunPathOnce"

\* runPath and runPathOnce: the cursor is behind the keyword;
\* `name` is "RunPath" or "RunPathOnce", the class of the node
runPath(s, name) ==
    Then(consumeTokenThrow(s, "Expected \"(\" after keyword.", runPathFailed(name),
                           {"bracketOpen"}), LAMBDA open :
    Then(expression(open.s, runPathFailed(name)), LAMBDA expr :
    Then(IF matchFound(expr.s, {"comma"})
         THEN arguments(advance(expr.s))
         ELSE Ok(expr.s, NoNode, <<>>), LAMBDA args :
    Then(consumeTokenThrow(args.s, "Expected \")\" after arguments.",
                           runPathFailed(name), {"bracketClose"}), LAMBDA close :
    Then(terminal(close.s, runPathFailed(name)), LAMBDA term :
        addRunInst(term.s,
                   Node(name, s.cur - 1, term.s.cur, <<expr.node>> \o args.node.kids),
                   expr.errors \o args.errors))))))

\* the `at (x, y)` form of print: the cursor is behind "at"
printAt(s, printToken, expr) ==
    Then(consumeTokenThrow(s, "Expected \"(\".", "Inst.Print", {"bracketOpen"}),
         LAMBDA open :
    Then(expression(open.s, "Inst.Print"), LAMBDA xResult :
    Then(consumeTokenThrow(xResult.s, "Expected \",\".", "Inst.Print", {"comma"}),
         LAMBDA comma :
    Then(expression(comma.s, "Inst.Print"), LAMBDA yResult :
    Then(consumeTokenThrow(yResult.s, "Expected \")\".", "Inst.Print",
                           {"bracketClose"}), LAMBDA close :
    Then(terminal(close.s, "Inst.Print"), LAMBDA term :
        Ok(term.s,
           Node("Print", printToken, term.s.cur,
                <<expr.node, xResult.node, yResult.node>>),
           expr.errors \o xResult.errors \o yResult.errors)))))))

\* print: the cursor is behind "print"
print(s) ==
    Then(expression(s, "Inst.Print"), LAMBDA expr :
        IF matchFound(expr.s, {"at"})
        THEN printAt(advance(expr.s), s.cur - 1, expr)
        ELSE Then(terminal(expr.s, "Inst.Print"), LAMBDA term :
                 Ok(term.s, Node("Print", s.cur - 1, term.s.cur, <<expr.node>>),
                    expr.errors)))

\* instruction: the cases of the modelled token types, and the default
instruction(s) ==
    CASE peek(s) = "curlyOpen" -> instructionBlock(advance(s))
      [] peek(s) \in {"integer", "double", "true", "false", "identifier",
                      "fileIdentifier", "bracketOpen", "string"} ->
            identifierLedInstruction(s)
      [] peek(s) = "if" -> ifInst(advance(s))
      [] peek(s) = "run" -> run(advance(s))
      [] peek(s) = "runPath" -> runPath(advance(s), "RunPath")
      [] peek(s) = "runOncePath" -> runPath(advance(s), "RunPathOnce")
      [] peek(s) = "print" -> print(advance(s))
      [] peek(s) = "period" ->
            Ok(advance(s), Node("Empty", s.cur, advance(s).cur, <<>>), <<>>)
      [] OTHER -> Throw(s, error(s.cur, Undefined, "Unknown instruction found"))

\* an Invalid node of the tokens from the start of the stream to `end`
InvalidFromZero(start, end) == Node("Invalid", 0, end, <<>>)

\* new Inst.Invalid(tokens.slice(start, end))
Invalid(start, end) == Node("Invalid", start, end, <<>>)

\* the catch of declaration(): synchronize, then an Invalid node of the
\* tokens from `start` to the cursor
declarationCatch(r, start) ==
    Let(synchronize(r.s, [inst |-> r.err.inst, expr |-> r.err.expr]), LAMBDA cur :
        IF cur < 0 THEN TypeErrorThrown(r.s)
        ELSE Ok([r.s EXCEPT !.cur = cur,
                            !.syncs = Append(@, [from |-> r.s.cur, at |-> cur]),
                            !.decls = Append(@, [start |-> start, end |-> cur,
                                                 raised |-> TRUE,
                                                 errors |-> <<r.err>>])],
                Invalid(start, cur), <<r.err>>))

\* declaration: instruction() in a try.  (No modelled token takes the
\* define() branch.)
declaration(s) ==
    Let(instruction(s), LAMBDA r :
        IF r.thrown = "ParseError" THEN declarationCatch(r, s.cur)
        ELSE IF r.thrown = "TypeError" THEN r
        ELSE Ok([r.s EXCEPT !.decls = Append(@, [start |-> s.cur, end |-> r.s.cur,
                                                 raised |-> FALSE,
                                                 errors |-> r.errors])],
                r.node, r.errors))

\* ---- parse() ----
\* the parser's fields and histories, as the state the parse functions thread
parserState ==
    [cur |-> current, runs |-> runInsts, decls |-> declLog, syncs |-> syncLog,
     blocks |-> blockLog]

\* the token streams handed to the constructor
StreamsOver(types, n) == UNION {[1..k -> types] : k \in 0..n}

TokenStreams ==
    StreamsOver(TokenTypes, MaxTokens)
        \cup StreamsOver(BlockTokenTypes, MaxLongTokens)
        \cup StreamsOver(PathTokenTypes, MaxLongTokens)

\* constructor: tokens.concat(eof), current = 0, runInsts = []
ParserInit ==
    /\ tokens \in {Append(ts, "eof") : ts \in TokenStreams}
    /\ current = 0
    /\ runInsts = <<>>
    /\ instructions = <<>>
    /\ parseErrors = <<>>
    /\ parserPc = "parsing"
    /\ parseResult = [parseErrors |-> <<>>, runInsts |-> <<>>, script |-> <<>>]
    /\ attempts = <<>>
    /\ declLog = <<>>
    /\ syncLog = <<>>
    /\ blockLog = <<>>

\* the parser before any stream is handed to it (the other specifications)
ParserIdle ==
    /\ tokens = <<"eof">>
    /\ current = 0
    /\ runInsts = <<>>
    /\ instructions = <<>>
    /\ parseErrors = <<>>
    /\ parserPc = "parsing"
    /\ parseResult = [parseErrors |-> <<>>, runInsts |-> <<>>, script |-> <<>>]
    /\ attempts = <<>>
    /\ declLog = <<>>
    /\ syncLog = <<>>
    /\ blockLog = <<>>

\* the resolver before any resolve() call (the other specifications)
ResolverIdle ==
    /\ syntaxTree = <<>>
    /\ resolverPc = [i |-> 0, step |-> "idle", pending |-> <<>>]
    /\ resolveErrors = <<>>
    /\ resolved = <<>>

\* the uris of the documents of the workspace
Uris == {"A", "B", "C"}

\* the names of the functions the documents define and call
FunctionNames == {"hi"}

\* no symbol table: the info of a document that was never analyzed
NoTable == 0

\* the text of a document, as far as the service looks at it: the documents
\* its run statements load, the functions it defines and the functions it calls
Text(loads, defines, calls) ==
    [loads |-> loads, defines |-> defines, calls |-> calls]

\* a documentInfo: its symbol table and its diagnostics (the names of the
\* calls that resolved to nothing)
DocumentInfo(table, diagnostics) ==
    [table |-> table, diagnostics |-> diagnostics]

\* the analysis service before any call (the other specifications)
ServiceIdle ==
    /\ documents = [uri \in Uris |-> Text({}, {}, {})]
    /\ documentInfos = [uri \in Uris |-> DocumentInfo(NoTable, {})]
    /\ symbolTables = <<>>
    /\ nextTable = 1
    /\ validations = 0
    /\ lastCall = [op |-> "constructor"]

\* a uri, as far as the document service looks at it: the pieces of the
\* string that precede the extension of its path, and the extension
\* (extname)
Uri(base, ext) == [base |-> base, ext |-> ext]

Extensions == {".ks", ".ksm", "", ".txt"}

\* the uris the client and the run statements name: doc1 with each
\* extension, and a .ksm file in a folder whose name contains ".ksm"
DocUris ==
    {Uri(<<"/doc1">>, ext) : ext \in Extensions}
        \cup {Uri(<<"/lib", ".ksm", "/doc1">>, ".ksm")}

\* no uri: the result of a normalization or of a path resolution that fails
NoUri == Uri(<<>>, "")

\* uri.toString(): the pieces of the string, the extension last
uriString(uri) == Append(uri.base, uri.ext)

\* the uri of a string
parsed(string) ==
    Uri(SubSeq(string, 1, Len(string) - 1), string[Len(string)])

\* String.replace(from, to) from the i-th piece on: the first piece equal
\* to `from` becomes `to`
RECURSIVE replace(_, _, _, _)
replace(string, from, to, i) ==
    IF i > Len(string) THEN string
    ELSE IF string[i] = from THEN [string EXCEPT ![i] = to]
    ELSE replace(string, from, to, i + 1)

\* a normalization that replaces the extension of a .ksm uri
extensionReplaced(uri) ==
    CASE uri.ext = ".ks" -> uri
      [] uri.ext = ".ksm" -> Uri(uri.base, ".ks")
      [] uri.ext = "" -> Uri(uri.base, uri.ext \o ".ks")
      [] OTHER -> NoUri

\* normalizeExtensions: .ks stays, in a .ksm uri the first ".ksm" of the
\* string becomes ".ks", no extension gets .ks, anything else has no normal
\* form
normalizeExtensions(uri) ==
    CASE uri.ext = ".ks" -> uri
      [] uri.ext = ".ksm" -> parsed(replace(uriString(uri), ".ksm", ".ks", 1))
      [] uri.ext = "" -> Uri(uri.base, uri.ext \o ".ks")
      [] OTHER -> NoUri

\* the keys of the maps: the uris and their normal forms
UriKeys == DocUris \cup ({normalizeExtensions(uri) : uri \in DocUris} \ {NoUri})

\* TextDocument.create: `id` tells the objects apart
TextDocument(uri, text, id) == [uri |-> uri, text |-> text, id |-> id]

\* no document: what Map.get returns for a uri without entry
NoDocument == TextDocument(NoUri, "", 0)

\* the document service before any call (the other specifications)
DocsIdle ==
    /\ clientDocs = [uri \in UriKeys |-> NoDocument]
    /\ serverDocs = [uri \in UriKeys |-> NoDocument]
    /\ docReady = TRUE
    /\ loadCalls = <<>>
    /\ loaderCalls = [uri \in UriKeys |-> 0]
    /\ nextDocument = 1
    /\ changeHandled = <<>>
    /\ closeHandled = <<>>
    /\ latestText = [uri \in UriKeys |-> ""]
    /\ cacheRuns = <<>>

\* the types of the catalog
Types == {"structure", "scalar", "stage"}

\* no type: an unset superType, an absent suffix, an operator without other
\* operand
NoType == "undefined"

\* the names of the suffixes
SuffixNames == {"number", "ready"}

\* OperatorKind
OperatorKinds == {"plus", "equal"}

\* what a call on a type came to: the call, its arguments (kept for the
\* calls on the operators), whether it threw, what it returned
TypeCall(op, args, threw, result) ==
    [op |-> op, args |-> args, threw |-> threw, result |-> result]

\* an operator of a type: its other operand and its return type
Operator(otherOperand, returnType) ==
    [otherOperand |-> otherOperand, returnType |-> returnType]

\* no operator: what getOperator returns for a kind without operators
NoOperator == Operator(NoType, NoType)

\* the types after their constructors (the other specifications)
TypesIdle ==
    /\ superType = [type \in Types |-> NoType]
    /\ coercibleTypes = [type \in Types |-> {}]
    /\ suffixes = [type \in Types |-> [name \in SuffixNames |-> NoType]]
    /\ operators = [kind \in OperatorKinds |-> <<>>]
    /\ concreteTypes = [type \in Types |-> 0]
    /\ nextConcrete = 1
    /\ typeCalls = 0
    /\ typeReturned = TypeCall("constructor", <<>>, FALSE, NoOperator)
    /\ instantiated = <<>>

\* Position and Range of vscode-languageserver
Position(line, character) == [line |-> line, character |-> character]
TextRange(start, end) == [start |-> start, end |-> end]

\* no rangeIntersection call (the other specifications)
PositionsIdle ==
    /\ ranges = <<TextRange(Position(0, 0), Position(0, 0)),
                  TextRange(Position(0, 0), Position(0, 0))>>
    /\ intersections = <<>>

\* a loop condition that never sees the end of the stream
isNeverAtEnd == TRUE

\* the condition of the loop of parse()
isNotAtEnd == ~isAtEnd(parserState)

\* a parse() that lets the exception through to its caller
parseRethrown ==
    [pc |-> "thrown", result |-> parseResult]

\* the catch of parse(): the error is logged and an empty result returned
parseCatch ==
    [pc |-> "caught",
     result |-> [parseErrors |-> <<>>, runInsts |-> <<>>, script |-> <<>>]]

\* one iteration of the loop of parse(); an exception that is no ParseError
\* ends parse() in its catch
ParseDeclaration ==
    /\ parserPc = "parsing"
    /\ isNotAtEnd
    /\ \E r \in {declaration(parserState)} :
       /\ current' = r.s.cur
       /\ runInsts' = r.s.runs
       /\ declLog' = r.s.decls
       /\ syncLog' = r.s.syncs
       /\ blockLog' = r.s.blocks
       /\ IF r.thrown = "none"
          THEN /\ instructions' = Append(instructions, r.node)
               /\ parseErrors' = parseErrors \o r.errors
               /\ attempts' = Append(attempts,
                                      [start |-> current, end |-> r.s.cur,
                                       raised |-> r.s.decls[Len(r.s.decls)].raised,
                                       errors |-> r.errors])
               /\ UNCHANGED <<parserPc, parseResult>>
          ELSE /\ parserPc' = parseCatch.pc
               /\ parseResult' = parseCatch.result
               /\ UNCHANGED <<instructions, parseErrors, attempts>>
    /\ UNCHANGED <<tokens, outsideParser>>

\* the loop of parse() ends at eof: parse() returns
ParseReturn ==
    /\ parserPc = "parsing"
    /\ ~isNotAtEnd
    /\ parserPc' = "returned"
    /\ parseResult' = [parseErrors |-> parseErrors, runInsts |-> runInsts,
                       script |-> instructions]
    /\ UNCHANGED <<tokens, current, runInsts, instructions, parseErrors, attempts,
                   declLog, syncLog, blockLog, outsideParser>>

ParserNext == ParseDeclaration \/ ParseReturn

\* an exception that is no ParseError (the engine's RangeError when the call
\* stack of the recursive descent is exhausted, say) is raised inside
\* declaration() and reaches the catch of parse()
ParseThrows ==
    /\ parserPc = "parsing"
    /\ isNotAtEnd
    /\ parserPc' = parseCatch.pc
    /\ parseResult' = parseCatch.result
    /\ UNCHANGED <<tokens, current, runInsts, instructions, parseErrors, attempts,
                   declLog, syncLog, blockLog, outsideParser>>

\* the constructor, for the short streams of the documents that meet
\* exceptions
ParserFaultInit ==
    /\ tokens \in {Append(ts, "eof") :
                     ts \in StreamsOver(BlockTokenTypes, MaxFaultTokens)}
    /\ current = 0
    /\ runInsts = <<>>
    /\ instructions = <<>>
    /\ parseErrors = <<>>
    /\ parserPc = "parsing"
    /\ parseResult = [parseErrors |-> <<>>, runInsts |-> <<>>, script |-> <<>>]
    /\ attempts = <<>>
    /\ declLog = <<>>
    /\ syncLog = <<>>
    /\ blockLog = <<>>

(***************************************************************************)
(* SYMBOL TABLE BUILDER                                                    *)
(***************************************************************************)
\* the lexemes of the name tokens handed to the builder
Names == {"x", "y"}

ScopeTypes == {"local", "global"}

\* KsSymbolKind
SymbolKinds == {"variable", "function", "lock", "parameter"}

\* no tracker: what Map.get gives for a name the scope does not hold
NoTracker == 0

\* new Scope(): a scope that holds no name
EmptyScope == [name \in Names |-> NoTracker]

\* the declaring token of the symbol that the dependency table declares
DependencyToken == -1

\* the root scope of the dependency symbol table: it declares "x"
DependencyScope ==
    [name \in Names |-> IF name = "x" THEN DependencyToken ELSE NoTracker]

\* new KsSymbolTracker(symbol): the symbol's kind and lexeme (its name token
\* is the key of the tracker) and the tokens of its usages
KsSymbolTracker(kind, name) == [kind |-> kind, name |-> name, usages |-> <<>>]

\* createDiagnostic(token, message, severity, undefined, relatedInformation):
\* `message` is the kind of the message, `related` the token the related
\* information points to (0 when there is none)
createDiagnostic(token, message, severity, related) ==
    [token |-> token, message |-> message, severity |-> severity,
     related |-> related]

\* ---- the scope tree ----
\* the children of the node at `path`: children[i] exists
hasChild(path, i) == Append(path, i) \in DOMAIN rootScope

\* children.length of the node at `path`
childCount(path) == Cardinality({p \in DOMAIN rootScope :
                                    /\ Len(p) = Len(path) + 1
                                    /\ SubSeq(p, 1, Len(path)) = path})

\* activeScopeNode() and activeScopeStack() throw when the active path
\* names no node
activePathFound == activeScopePath \in DOMAIN rootScope

\* peekScope
peekScope == rootScope[activeScopePath]

\* activeScopeStack: the scopes from the root to the active node
activeScopeStack ==
    [i \in 1..(Len(activeScopePath) + 1) |->
        rootScope[SubSeq(activeScopePath, 1, i - 1)]]

\* a search of the stack that starts at the outermost scope
lookupOutermostFirst(scopes, i, name) ==
    IF \A j \in 1..i : scopes[j][name] = NoTracker THEN NoTracker
    ELSE scopes[CHOOSE j \in 1..i :
                   /\ scopes[j][name] # NoTracker
                   /\ \A k \in 1..(j - 1) : scopes[k][name] = NoTracker][name]

\* the first tracker of `name` in scopes[i], scopes[i - 1], ... scopes[1]
RECURSIVE lookupInStack(_, _, _)
lookupInStack(scopes, i, name) ==
    IF i = 0 THEN NoTracker
    ELSE IF scopes[i][name] # NoTracker THEN scopes[i][name]
    ELSE lookupInStack(scopes, i - 1, name)

\* a search of the dependency tables that always finds the dependency's symbol
lookupDependencyAlways(tables, i, name) == DependencyToken

\* the first tracker of `name` in tables[i], tables[i + 1], ...
RECURSIVE lookupInChildren(_, _, _)
lookupInChildren(tables, i, name) ==
    IF i > Len(tables) THEN NoTracker
    ELSE IF tables[i][name] # NoTracker THEN tables[i][name]
    ELSE lookupInChildren(tables, i + 1, name)

\* a lookup that asks the innermost scope only, whatever the scope type
lookupInnermost(name, scopeType) == peekScope[name]

\* lookup
lookup(name, scopeType) ==
    IF scopeType = "local" THEN peekScope[name]
    ELSE IF lookupInStack(activeScopeStack, Len(activeScopePath) + 1, name)
                # NoTracker
    THEN lookupInStack(activeScopeStack, Len(activeScopePath) + 1, name)
    ELSE lookupInChildren(childSymbolTables, 1, name)

\* selectScope: the path of the node whose scope is selected
selectScope(scopeType) == IF scopeType = "global" THEN <<>> ELSE activeScopePath

\* shadowSymbolHint
shadowSymbolHint(token, symbol) ==
    createDiagnostic(token, "shadows", "Warning", symbol)

\* localConflictError
localConflictError(token, symbol) ==
    createDiagnostic(token, "already exists", "Error", symbol)

\* the size of the script resolved so far: its scopes below the root and its
\* name tokens
programSize == Cardinality(DOMAIN rootScope) - 1 + nextToken - 1

\* ---- beginScope, endScope, rewindScope ----
\* beginScope: `next`, the index of the child to activate
nextChild ==
    IF Len(backTrackPath) >= Len(activeScopePath) + 1
    THEN backTrackPath[Len(activeScopePath) + 1] + 1
    ELSE 0

\* an endScope that pops nothing
popNothing(path) == path

\* Array.pop
pop(path) == IF path = <<>> THEN path ELSE SubSeq(path, 1, Len(path) - 1)

\* a rewindScope that keeps the backtrack path
keptBackTrackPath == backTrackPath

\* rewindScope: the backtrack path it leaves
rewoundBackTrackPath == <<>>

\* the trackers of a scope in the order of Map.values(): insertion order
RECURSIVE ascending(_)
ascending(ids) ==
    IF ids = {} THEN <<>>
    ELSE <<CHOOSE m \in ids : \A n \in ids : m <= n>>
             \o ascending(ids \ {CHOOSE m \in ids : \A n \in ids : m <= n})

scopeValues(scope) == ascending({scope[name] : name \in Names} \ {NoTracker})

\* lock.cooked: the locks declared through declareLock are not cooked
cooked(tracker) == FALSE

\* an endScope that reports no tracker
noDiagnostic(id) == <<>>

\* an endScope that grades its reports: an error for an unused parameter, a
\* warning for an unused lock or variable
gradedDiagnostic(id) ==
    IF trackers[id].kind = "function" THEN <<>>
    ELSE IF Len(trackers[id].usages) # 0 THEN <<>>
    ELSE IF trackers[id].kind = "parameter"
    THEN <<createDiagnostic(id, "was not used", "Error", 0)>>
    ELSE <<createDiagnostic(id, "was not used", "Warning", 0)>>

\* endScope: the diagnostic, if any, of one tracker of the closed scope
unusedDiagnostic(id) ==
    IF trackers[id].kind = "function" THEN <<>>
    ELSE IF trackers[id].kind = "lock" /\ cooked(id) THEN <<>>
    ELSE IF Len(trackers[id].usages) = 0
    THEN <<createDiagnostic(id, "was not used", "Error", 0)>>
    ELSE <<>>

\* endScope: the loop over the trackers
RECURSIVE unusedDiagnostics(_)
unusedDiagnostics(ids) ==
    IF ids = <<>> THEN <<>>
    ELSE unusedDiagnostic(Head(ids)) \o unusedDiagnostics(Tail(ids))

\* the next call of the first pass that the pass under way has to repeat
toReplay ==
    IF pass > 1 /\ Len(replay) < Len(firstPass)
    THEN firstPass[Len(replay) + 1].op ELSE "none"

\* the histories of the passes after one more beginScope / endScope call
Logged(op, path) ==
    /\ firstPass' = IF pass = 1 THEN Append(firstPass, [op |-> op, path |-> path])
                    ELSE firstPass
    /\ replay' = IF pass > 1 THEN Append(replay, [op |-> op, path |-> path])
                 ELSE replay

\* what a call that throws leaves
ScopeThrows(op) ==
    /\ scopeError' = TRUE
    /\ lastOp' = [op |-> op, threw |-> TRUE]
    /\ UNCHANGED <<rootScope, activeScopePath, backTrackPath, childSymbolTables,
                   trackers, tokenTracker, returned, pass, firstPass, replay,
                   openScopes, nextToken,
                   declaredAs>>

\* beginScope
beginScope ==
    IF ~activePathFound THEN ScopeThrows("beginScope")
       ELSE /\ rootScope' =
                  IF hasChild(activeScopePath, nextChild) THEN rootScope
                  ELSE [p \in DOMAIN rootScope
                            \cup {Append(activeScopePath,
                                         childCount(activeScopePath))} |->
                           IF p \in DOMAIN rootScope THEN rootScope[p]
                           ELSE EmptyScope]
            /\ activeScopePath' = Append(activeScopePath, nextChild)
            /\ backTrackPath' = Append(activeScopePath, nextChild)
            /\ openScopes' = openScopes + 1
            /\ returned' = <<>>
            /\ lastOp' = [op |-> "beginScope", threw |-> FALSE,
                          next |-> nextChild,
                          existed |-> hasChild(activeScopePath, nextChild),
                          stored |-> childCount(activeScopePath),
                          nodes |-> Cardinality(DOMAIN rootScope)]
            /\ Logged("beginScope", Append(activeScopePath, nextChild))
            /\ UNCHANGED <<childSymbolTables, trackers, tokenTracker,
                           scopeError, pass, nextToken,
                           declaredAs>>

\* beginScope, called within the bounds and, in a later pass, as the first
\* pass called it
BeginScope ==
    /\ ~scopeError
    /\ Len(activeScopePath) < MaxDepth
    /\ pass = 1 \/ toReplay = "beginScope"
    /\ hasChild(activeScopePath, nextChild)
          \/ (/\ Cardinality(DOMAIN rootScope) <= MaxScopes
              /\ programSize < MaxProgram)
    /\ beginScope
    /\ UNCHANGED outsideScope

\* endScope
endScope ==
    IF ~activePathFound THEN ScopeThrows("endScope")
       ELSE /\ activeScopePath' = pop(activeScopePath)
            /\ returned' = unusedDiagnostics(scopeValues(peekScope))
            /\ openScopes' = openScopes - 1
            /\ lastOp' = [op |-> "endScope", threw |-> FALSE,
                          path |-> activeScopePath]
            /\ Logged("endScope", activeScopePath)
            /\ UNCHANGED <<rootScope, backTrackPath, childSymbolTables, trackers,
                           tokenTracker, scopeError, pass, nextToken,
                           declaredAs>>

\* endScope, called for a scope that beginScope opened
EndScope ==
    /\ ~scopeError
    /\ openScopes > 0
    /\ pass = 1 \/ toReplay = "endScope"
    /\ endScope
    /\ UNCHANGED outsideScope

\* rewindScope; a traversal that follows another one is one more pass
rewindScope ==
    /\ activeScopePath' = <<>>
    /\ backTrackPath' = rewoundBackTrackPath
    /\ pass' = IF firstPass = <<>> THEN pass ELSE pass + 1
    /\ replay' = <<>>
    /\ returned' = <<>>
    /\ lastOp' = [op |-> "rewindScope", threw |-> FALSE]
    /\ UNCHANGED <<rootScope, childSymbolTables, trackers, tokenTracker,
                   scopeError, firstPass, openScopes, nextToken,
                   declaredAs>>

\* rewindScope, called between two traversals
RewindScope ==
    /\ ~scopeError
    /\ openScopes = 0
    /\ firstPass # <<>>
    /\ pass = 1 \/ Len(replay) = Len(firstPass)
    /\ pass < MaxPasses
    /\ rewindScope
    /\ UNCHANGED outsideScope

\* ---- addScope, declare, use ----
\* addScope: the dependency's symbol table is linked before the file's
\* symbols are declared and resolved
AddScope ==
    /\ ~scopeError
    /\ childSymbolTables = <<>>
    /\ nextToken = 1
    /\ childSymbolTables' = <<DependencyScope>>
    /\ returned' = <<>>
    /\ lastOp' = [op |-> "addScope", threw |-> FALSE]
    /\ UNCHANGED <<rootScope, activeScopePath, backTrackPath, trackers,
                   tokenTracker, scopeError, pass, firstPass, replay,
                   openScopes, nextToken,
                   declaredAs>>
    /\ UNCHANGED outsideScope

\* a name token is handed to the builder within the bounds
nameTokenLeft ==
    /\ ~scopeError
    /\ nextToken <= MaxNameTokens
    /\ programSize < MaxProgram

\* what a builder call on the name token `nextToken` records of the state
\* it was made in
Called(op, scopeType, name) ==
    [op |-> op, threw |-> FALSE, scopeType |-> scopeType, name |-> name,
     token |-> nextToken, path |-> activeScopePath,
     target |-> rootScope[selectScope(scopeType)][name],
     innermost |-> peekScope[name],
     root |-> rootScope[<<>>][name]]

\* declareVariable, declareFunction, declareLock and declareParameter, which
\* differ in the symbol they construct only: `kind` is its KsSymbolKind
declare(op, kind, scopeType, name) ==
    /\ IF ~activePathFound THEN ScopeThrows(op)
       ELSE /\ IF lookup(name, scopeType) # NoTracker
               THEN /\ returned' = <<localConflictError(nextToken,
                                                        lookup(name, scopeType))>>
                    /\ UNCHANGED <<rootScope, trackers, tokenTracker,
                                   declaredAs>>
               ELSE /\ returned' =
                          IF scopeType = "global" THEN <<>>
                          ELSE IF lookup(name, "global") = NoTracker THEN <<>>
                          ELSE <<shadowSymbolHint(nextToken,
                                                  lookup(name, "global"))>>
                    /\ trackers' = [id \in DOMAIN trackers \cup {nextToken} |->
                                       IF id = nextToken
                                       THEN KsSymbolTracker(kind, name)
                                       ELSE trackers[id]]
                    /\ tokenTracker' =
                          [tk \in DOMAIN tokenTracker \cup {nextToken} |->
                              IF tk = nextToken THEN nextToken
                              ELSE tokenTracker[tk]]
                    /\ rootScope' = [rootScope EXCEPT
                                        ![selectScope(scopeType)][name] = nextToken]
                    /\ declaredAs' =
                          [id \in DOMAIN declaredAs \cup {nextToken} |->
                              IF id = nextToken THEN scopeType
                              ELSE declaredAs[id]]
            /\ nextToken' = nextToken + 1
            /\ lastOp' = Called(op, scopeType, name)
            /\ UNCHANGED <<activeScopePath, backTrackPath, childSymbolTables,
                           scopeError, pass, firstPass, replay, openScopes>>

DeclareVariable ==
    /\ nameTokenLeft
    /\ \E scopeType \in ScopeTypes, name \in Names :
          declare("declareVariable", "variable", scopeType, name)
    /\ UNCHANGED outsideScope

DeclareFunction ==
    /\ nameTokenLeft
    /\ \E scopeType \in ScopeTypes, name \in Names :
          declare("declareFunction", "function", scopeType, name)
    /\ UNCHANGED outsideScope

DeclareLock ==
    /\ nameTokenLeft
    /\ \E scopeType \in ScopeTypes, name \in Names :
          declare("declareLock", "lock", scopeType, name)
    /\ UNCHANGED outsideScope

DeclareParameter ==
    /\ nameTokenLeft
    /\ \E scopeType \in ScopeTypes, name \in Names :
          declare("declareParameter", "parameter", scopeType, name)
    /\ UNCHANGED outsideScope

\* tracker.usages.push(createEnitityChange(token, expr))
usagePushed(tracker, token) ==
    [trackers EXCEPT ![tracker].usages = Append(@, token)]

\* checkUseSymbol, with the tracker that the caller looked up
checkUseSymbol(op, name, tracker) ==
    /\ IF tracker = NoTracker
       THEN /\ returned' = <<createDiagnostic(nextToken, "may not exist",
                                              "Error", 0)>>
            /\ UNCHANGED <<trackers, tokenTracker>>
       ELSE /\ returned' = <<>>
            /\ tokenTracker' =
                  [tk \in DOMAIN tokenTracker \cup {nextToken} |->
                      IF tk = nextToken THEN tracker ELSE tokenTracker[tk]]
            /\ trackers' = usagePushed(tracker, nextToken)
    /\ nextToken' = nextToken + 1
    /\ lastOp' = Called(op, "global", name)
    /\ UNCHANGED <<rootScope, activeScopePath, backTrackPath, childSymbolTables,
                   scopeError, pass, firstPass, replay, openScopes, declaredAs>>

\* useSymbol
UseSymbol ==
    /\ ~scopeError
    /\ nextToken <= MaxNameTokens
    /\ programSize < MaxProgram
    /\ \E name \in Names :
          IF ~activePathFound THEN ScopeThrows("useSymbol")
          ELSE checkUseSymbol("useSymbol", name, lookup(name, "global"))
    /\ UNCHANGED outsideScope

\* isKsVariable, isKsLock, isKsParameter: the type guards on the declared
\* symbol of a tracker
isKsVariable(tracker) == trackers[tracker].kind = "variable"
isKsLock(tracker) == trackers[tracker].kind = "lock"
isKsParameter(tracker) == trackers[tracker].kind = "parameter"

\* lookupVariableTracker
lookupVariableTracker(name, scopeType) ==
    IF lookup(name, scopeType) # NoTracker
          /\ isKsVariable(lookup(name, scopeType))
    THEN lookup(name, scopeType) ELSE NoTracker

\* lookupFunctionTracker: its guard is isKsVariable
lookupFunctionTracker(name, scopeType) ==
    IF lookup(name, scopeType) # NoTracker
          /\ isKsVariable(lookup(name, scopeType))
    THEN lookup(name, scopeType) ELSE NoTracker

\* lookupLockTracker
lookupLockTracker(name, scopeType) ==
    IF lookup(name, scopeType) # NoTracker
          /\ isKsLock(lookup(name, scopeType))
    THEN lookup(name, scopeType) ELSE NoTracker

\* lookupParameterTracker
lookupParameterTracker(name, scopeType) ==
    IF lookup(name, scopeType) # NoTracker
          /\ isKsParameter(lookup(name, scopeType))
    THEN lookup(name, scopeType) ELSE NoTracker

\* useVariable
UseVariable ==
    /\ ~scopeError
    /\ nextToken <= MaxNameTokens
    /\ programSize < MaxProgram
    /\ \E name \in Names :
          IF ~activePathFound THEN ScopeThrows("useVariable")
          ELSE checkUseSymbol("useVariable", name,
                              lookupVariableTracker(name, "global"))
    /\ UNCHANGED outsideScope

\* useFunction
UseFunction ==
    /\ ~scopeError
    /\ nextToken <= MaxNameTokens
    /\ programSize < MaxProgram
    /\ \E name \in Names :
          IF ~activePathFound THEN ScopeThrows("useFunction")
          ELSE checkUseSymbol("useFunction", name,
                              lookupFunctionTracker(name, "global"))
    /\ UNCHANGED outsideScope

\* useLock
UseLock ==
    /\ ~scopeError
    /\ nextToken <= MaxNameTokens
    /\ programSize < MaxProgram
    /\ \E name \in Names :
          IF ~activePathFound THEN ScopeThrows("useLock")
          ELSE checkUseSymbol("useLock", name, lookupLockTracker(name, "global"))
    /\ UNCHANGED outsideScope

\* useParameter
UseParameter ==
    /\ ~scopeError
    /\ nextToken <= MaxNameTokens
    /\ programSize < MaxProgram
    /\ \E name \in Names :
          IF ~activePathFound THEN ScopeThrows("useParameter")
          ELSE checkUseSymbol("useParameter", name,
                              lookupParameterTracker(name, "global"))
    /\ UNCHANGED outsideScope

\* setVariable writes token.tracker only: the trackers after it has found
\* `tracker` for the token
setTracker(tracker, token) == trackers

\* setVariable: the tracker is put in the token's slot, no usage is recorded
SetVariable ==
    /\ ~scopeError
    /\ nextToken <= MaxNameTokens
    /\ programSize < MaxProgram
    /\ \E name \in Names :
          IF ~activePathFound THEN ScopeThrows("setVariable")
          ELSE /\ IF lookup(name, "global") = NoTracker
                  THEN /\ returned' = <<createDiagnostic(nextToken, "may not exist",
                                                         "Error", 0)>>
                       /\ UNCHANGED <<tokenTracker, trackers>>
                  ELSE /\ returned' = <<>>
                       /\ tokenTracker' =
                             [tk \in DOMAIN tokenTracker \cup {nextToken} |->
                                 IF tk = nextToken THEN lookup(name, "global")
                                 ELSE tokenTracker[tk]]
                       /\ trackers' = setTracker(lookup(name, "global"),
                                                 nextToken)
               /\ nextToken' = nextToken + 1
               /\ lastOp' = Called("setVariable", "global", name)
               /\ UNCHANGED <<rootScope, activeScopePath, backTrackPath,
                              childSymbolTables, scopeError, pass,
                              firstPass, replay, openScopes, declaredAs>>
    /\ UNCHANGED outsideScope

\* constructor: the root node with the global scope, no child, empty paths
ScopeInit ==
    /\ rootScope = [p \in {<<>>} |-> EmptyScope]
    /\ activeScopePath = <<>>
    /\ backTrackPath = <<>>
    /\ childSymbolTables = <<>>
    /\ trackers = [id \in {DependencyToken} |-> KsSymbolTracker("function", "x")]
    /\ tokenTracker = [tk \in {DependencyToken} |-> DependencyToken]
    /\ returned = <<>>
    /\ scopeError = FALSE
    /\ lastOp = [op |-> "constructor", threw |-> FALSE]
    /\ pass = 1
    /\ firstPass = <<>>
    /\ replay = <<>>
    /\ openScopes = 0
    /\ nextToken = 1
    /\ declaredAs = [id \in {DependencyToken} |-> "global"]

\* the builder before any call (the other specifications)
ScopeIdle == ScopeInit

\* scope traversals: two passes over the same blocks
ScopeNext == BeginScope \/ EndScope \/ RewindScope

InitScope ==
    ParserIdle /\ ScopeInit /\ ResolverIdle /\ ServiceIdle /\ DocsIdle
        /\ TypesIdle /\ PositionsIdle

SpecScope == InitScope /\ [][ScopeNext]_vars

\* declarations and uses in one traversal
SymbolsNext ==
    \/ BeginScope
    \/ EndScope
    \/ AddScope
    \/ DeclareVariable
    \/ DeclareFunction
    \/ DeclareLock
    \/ DeclareParameter
    \/ UseSymbol

InitSymbols ==
    ParserIdle /\ ScopeInit /\ ResolverIdle /\ ServiceIdle /\ DocsIdle
        /\ TypesIdle /\ PositionsIdle

SpecSymbols == InitSymbols /\ [][SymbolsNext]_vars

\* uses and assignments of names, among declarations of variables and locks
UsesNext ==
    \/ BeginScope
    \/ EndScope
    \/ AddScope
    \/ DeclareVariable
    \/ DeclareLock
    \/ UseSymbol
    \/ UseVariable
    \/ UseFunction
    \/ UseLock
    \/ UseParameter
    \/ SetVariable

InitUses ==
    ParserIdle /\ ScopeInit /\ ResolverIdle /\ ServiceIdle /\ DocsIdle
        /\ TypesIdle /\ PositionsIdle

SpecUses == InitUses /\ [][UsesNext]_vars

(***************************************************************************)
(* FUNCTION RESOLVER                                                       *)
(***************************************************************************)
\* The instructions of the scripts handed to FuncResolver: the Invalid
\* instruction of error recovery, an expression instruction, an empty block
\* and a function declaration with an empty body.  `scope` is the type of the
\* declaration's scope token, "" when it has none.
Inst(tag, name, scope) == [tag |-> tag, name |-> name, scope |-> scope]

ScopeTokenTypes == {"", "local", "global", "parameter"}

ScriptInsts ==
    {Inst("Inst.Invalid", "", ""), Inst("Inst.Expr", "", ""),
     Inst("Inst.Block", "", "")}
        \cup {Inst("Decl.Func", name, scope) :
                 name \in Names, scope \in ScopeTokenTypes}

ScriptsOver(n) == UNION {[1..k -> ScriptInsts] : k \in 0..n}

Scripts == ScriptsOver(MaxInsts)

\* the position of resolve(): before, at ("visit") and inside the block of
\* ("open", "close") the instruction at index i, or outside the list of
\* instructions (i = 0); `pending` holds the errors that visitDeclFunction
\* appends after the block is resolved
At(i, step, pending) == [i |-> i, step |-> step, pending |-> pending]

\* constructor
ResolverInit ==
    /\ syntaxTree \in Scripts
    /\ resolverPc = At(0, "idle", <<>>)
    /\ resolveErrors = <<>>
    /\ resolved = <<>>

\* resolveInsts: the position after instruction i
after(i) == IF i < Len(syntaxTree) THEN At(i + 1, "visit", <<>>) ELSE At(0, "end", <<>>)

visiting(tag) ==
    /\ resolverPc.step = "visit"
    /\ syntaxTree[resolverPc.i].tag = tag

\* a resolve() that lets the exception through to its caller
resolveRethrown ==
    /\ resolverPc' = At(0, "thrown", <<>>)
    /\ UNCHANGED <<syntaxTree, resolveErrors, resolved>>

\* the catch of resolve(): the error is logged and [] is returned
resolveCatch ==
    /\ resolverPc' = At(0, "caught", <<>>)
    /\ resolved' = <<>>
    /\ UNCHANGED <<syntaxTree, resolveErrors>>

\* resolve: rewindScope()
ResolveRewind ==
    /\ resolverPc.step = "idle"
    /\ rewindScope
    /\ resolverPc' = At(0, "begin", <<>>)
    /\ UNCHANGED <<syntaxTree, resolveErrors, resolved, outsideResolver>>

\* resolve: beginScope(this.syntaxTree)
ResolveBegin ==
    /\ resolverPc.step = "begin"
    /\ beginScope
    /\ IF scopeError' THEN resolveCatch
       ELSE /\ resolverPc' = after(0)
            /\ UNCHANGED <<syntaxTree, resolveErrors, resolved>>
    /\ UNCHANGED outsideResolver

\* an Invalid instruction that reports itself
visitInstInvalidReported == <<createDiagnostic(0, "invalid", "Error", 0)>>

\* visitInstInvalid: the errors it returns
visitInstInvalid == <<>>

\* visitInstInvalid
VisitInstInvalid ==
    /\ visiting("Inst.Invalid")
    /\ resolveErrors' = resolveErrors \o visitInstInvalid
    /\ resolverPc' = after(resolverPc.i)
    /\ UNCHANGED <<syntaxTree, resolved, scopeVars, outsideResolver>>

\* visitExpr on an expression that declares no function
VisitExpr ==
    /\ visiting("Inst.Expr")
    /\ resolverPc' = after(resolverPc.i)
    /\ UNCHANGED <<syntaxTree, resolveErrors, resolved, scopeVars, outsideResolver>>

\* visitBlock: beginScope(inst), also reached from visitDeclFunction
VisitBlock ==
    /\ \/ visiting("Inst.Block")
       \/ resolverPc.step = "open"
    /\ beginScope
    /\ IF scopeError' THEN resolveCatch
       ELSE /\ resolverPc' = At(resolverPc.i, "close", resolverPc.pending)
            /\ UNCHANGED <<syntaxTree, resolveErrors, resolved>>
    /\ UNCHANGED outsideResolver

\* visitBlock: endScope(), whose diagnostics are dropped, after the (empty)
\* list of the block's instructions; visitDeclFunction then appends the
\* error of its declaration
VisitBlockEnd ==
    /\ resolverPc.step = "close"
    /\ endScope
    /\ IF scopeError' THEN resolveCatch
       ELSE /\ resolverPc' = after(resolverPc.i)
            /\ resolveErrors' = resolveErrors \o resolverPc.pending
            /\ UNCHANGED <<syntaxTree, resolved>>
    /\ UNCHANGED outsideResolver

\* isFileScope: scopeDepth() === 2
isFileScope == Len(activeScopePath) + 1 = 2

\* visitDeclFunction: the scope type of the declaration
functionScopeType(scope) ==
    IF scope = "" THEN (IF isFileScope THEN "global" ELSE "local") ELSE scope

\* visitDeclFunction: an unexpected scope token throws, else declareFunction
VisitDeclFunction ==
    /\ visiting("Decl.Func")
    /\ IF syntaxTree[resolverPc.i].scope \notin {"", "local", "global"}
       THEN resolveCatch /\ UNCHANGED scopeVars
       ELSE /\ declare("declareFunction", "function",
                       functionScopeType(syntaxTree[resolverPc.i].scope),
                       syntaxTree[resolverPc.i].name)
            /\ IF scopeError' THEN resolveCatch
               ELSE /\ resolverPc' = At(resolverPc.i, "open", returned')
                    /\ UNCHANGED <<syntaxTree, resolveErrors, resolved>>
    /\ UNCHANGED outsideResolver

\* resolve: endScope() and the return of the errors
ResolveEnd ==
    /\ resolverPc.step = "end"
    /\ endScope
    /\ IF scopeError' THEN resolveCatch
       ELSE /\ resolverPc' = At(0, "returned", <<>>)
            /\ resolved' = resolveErrors \o returned'
            /\ UNCHANGED <<syntaxTree, resolveErrors>>
    /\ UNCHANGED outsideResolver

ResolverNext ==
    \/ ResolveRewind
    \/ ResolveBegin
    \/ VisitInstInvalid
    \/ VisitExpr
    \/ VisitBlock
    \/ VisitBlockEnd
    \/ VisitDeclFunction
    \/ ResolveEnd

InitResolver ==
    ParserIdle /\ ScopeInit /\ ResolverInit /\ ServiceIdle /\ DocsIdle
        /\ TypesIdle /\ PositionsIdle

SpecResolver == InitResolver /\ [][ResolverNext]_vars

\* the constructor, for the short scripts of the documents that meet
\* exceptions
ResolverFaultInit ==
    /\ syntaxTree \in ScriptsOver(MaxFaultInsts)
    /\ resolverPc = At(0, "idle", <<>>)
    /\ resolveErrors = <<>>
    /\ resolved = <<>>

\* an exception (the engine's RangeError when the call stack of the visitors
\* is exhausted, say) is raised inside the try of resolve()
ResolveThrows ==
    /\ resolverPc.step \in {"begin", "visit", "open", "close", "end"}
    /\ resolveCatch
    /\ UNCHANGED <<scopeVars, outsideResolver>>

\* a document is parsed, then resolved; either may meet an exception
FaultsNext ==
    \/ ParseDeclaration
    \/ ParseReturn
    \/ ParseThrows
    \/ parserPc # "parsing" /\ ResolverNext
    \/ parserPc # "parsing" /\ ResolveThrows

InitFaults ==
    ParserFaultInit /\ ScopeInit /\ ResolverFaultInit /\ ServiceIdle /\ DocsIdle
        /\ TypesIdle /\ PositionsIdle

SpecFaults == InitFaults /\ [][FaultsNext]_vars

InitParser ==
    ParserInit /\ ScopeIdle /\ ResolverIdle /\ ServiceIdle /\ DocsIdle
        /\ TypesIdle /\ PositionsIdle

SpecParser == InitParser /\ [][ParserNext]_vars

(***************************************************************************)
(* ANALYSIS SERVICE                                                        *)
(***************************************************************************)
\* The coordinator of the documents (services/analysisService.ts) and the
\* symbol table it links (analysis/symbolTable.ts).  A symbol table is a
\* record of its document, the functions of its root scope, and its
\* dependencyTables and dependentTables, held in symbolTables under the
\* number it was built with.

\* the texts a document may have: it loads other documents only
Texts(uri) ==
    {Text(loads, defines, calls) :
        loads \in SUBSET (Uris \ {uri}),
        defines \in SUBSET FunctionNames,
        calls \in SUBSET FunctionNames}

\* the documents reached from `uris` by at most n more load statements
RECURSIVE loadClosure(_, _, _)
loadClosure(docs, uris, n) ==
    IF n = 0 THEN uris
    ELSE loadClosure(docs, uris \cup UNION {docs[u].loads : u \in uris}, n - 1)

\* the load statements of the documents form a cycle
cyclic(docs) ==
    \E uri \in Uris :
        uri \in loadClosure(docs, docs[uri].loads, Cardinality(Uris))

\* the service's state, as the analysis threads it
serviceState ==
    [infos |-> documentInfos, tables |-> symbolTables, next |-> nextTable]

\* a replaced symbol table that keeps its edges
keptSelf(tables, old) == tables

\* SymbolTable.removeSelf: the table leaves the dependentTables of its
\* dependencies and the dependencyTables of its dependents, and its own sets
\* are cleared
removeSelf(tables, old) ==
    [id \in DOMAIN tables |->
        IF id = old
        THEN [tables[id] EXCEPT !.dependencyTables = {},
                                !.dependentTables = {}]
        ELSE [tables[id] EXCEPT !.dependencyTables = @ \ {old},
                                !.dependentTables = @ \ {old}]]

\* a new symbol table that is recorded in its own sets only
addTableOneWay(tables, id, uri, defines, dependencies, dependents) ==
    [i \in DOMAIN tables \cup {id} |->
        IF i = id
        THEN [uri |-> uri, defines |-> defines,
              dependencyTables |-> dependencies,
              dependentTables |-> dependents]
        ELSE tables[i]]

\* the new symbol table of `uri` is linked: it is added to the
\* dependentTables of its dependencies and to the dependencyTables of its
\* dependents
addTable(tables, id, uri, defines, dependencies, dependents) ==
    [i \in DOMAIN tables \cup {id} |->
        IF i = id
        THEN [uri |-> uri, defines |-> defines,
              dependencyTables |-> dependencies,
              dependentTables |-> dependents]
        ELSE [tables[i] EXCEPT
                 !.dependentTables =
                     IF i \in dependencies THEN @ \cup {id} ELSE @,
                 !.dependencyTables =
                     IF i \in dependents THEN @ \cup {id} ELSE @]]

\* the symbol tables of the documents the text loads
loadedTables(st, text) ==
    {st.infos[u].table : u \in text.loads} \ {NoTable}

\* the symbol tables that depend on the table `old` of the document
dependentsOf(st, old) ==
    IF old = NoTable THEN {} ELSE st.tables[old].dependentTables

\* the calls of the text that resolve neither to a function of the document
\* nor to a function of the root scope of one of its dependency tables
unresolvedCalls(st, text) ==
    {name \in text.calls :
        /\ name \notin text.defines
        /\ \A id \in loadedTables(st, text) : name \notin st.tables[id].defines}

\* the state once the document is analyzed, its load statements being
\* satisfied in `st`: its new table replaces the previous one, which is
\* unlinked, and takes over the tables that depended on it
analyzed(st, uri, text) ==
    [infos |-> [st.infos EXCEPT
                   ![uri] = DocumentInfo(st.next, unresolvedCalls(st, text))],
     tables |-> addTable(removeSelf(st.tables, st.infos[uri].table),
                         st.next, uri, text.defines,
                         loadedTables(st, text),
                         dependentsOf(st, st.infos[uri].table)),
     next |-> st.next + 1]

RECURSIVE analyze(_, _, _, _)
RECURSIVE loadDocuments(_, _, _)

\* a service that analyzes no document it was not asked about
loadNothing(docs, st, pending) == st

\* the documents named by load statements are analyzed, unless they are cached
loadDocuments(docs, st, pending) ==
    IF pending = {} THEN st
    ELSE loadDocuments(docs,
                       IF st.infos[CHOOSE u \in pending : TRUE].table = NoTable
                       THEN analyze(docs, st, CHOOSE u \in pending : TRUE,
                                    docs[CHOOSE u \in pending : TRUE])
                       ELSE st,
                       pending \ {CHOOSE u \in pending : TRUE})

\* the analysis of one document: the documents it loads first, then its own
\* symbol table
analyze(docs, st, uri, text) ==
    analyzed(loadDocuments(docs, st, text.loads), uri, text)

\* the record of a call: the table the document had before, the documents
\* that had no info before, and the info returned
Answered(op, uri, st) ==
    [op |-> op, uri |-> uri, previous |-> documentInfos[uri].table,
     uncached |-> {u \in Uris : documentInfos[u].table = NoTable},
     info |-> st.infos[uri]]

\* validateDocument(uri, text)
ValidateDocument ==
    /\ validations < MaxValidations
    /\ \E uri \in Uris : \E text \in Texts(uri) :
          /\ ~cyclic([documents EXCEPT ![uri] = text])
          /\ documents' = [documents EXCEPT ![uri] = text]
          /\ documentInfos' = analyze(documents', serviceState, uri, text).infos
          /\ symbolTables' = analyze(documents', serviceState, uri, text).tables
          /\ nextTable' = analyze(documents', serviceState, uri, text).next
          /\ lastCall' = Answered("validateDocument", uri,
                                  analyze(documents', serviceState, uri, text))
    /\ validations' = validations + 1
    /\ UNCHANGED outsideService

\* getInfo(uri): the cached info, or the info of a first analysis
GetInfo ==
    /\ validations < MaxValidations
    /\ \E uri \in Uris :
          IF documentInfos[uri].table # NoTable
          THEN /\ lastCall' = Answered("getInfo", uri, serviceState)
               /\ UNCHANGED <<documentInfos, symbolTables, nextTable>>
          ELSE /\ documentInfos' =
                     analyze(documents, serviceState, uri, documents[uri]).infos
               /\ symbolTables' =
                     analyze(documents, serviceState, uri, documents[uri]).tables
               /\ nextTable' =
                     analyze(documents, serviceState, uri, documents[uri]).next
               /\ lastCall' =
                     Answered("getInfo", uri,
                              analyze(documents, serviceState, uri,
                                      documents[uri]))
    /\ validations' = validations + 1
    /\ UNCHANGED <<documents, outsideService>>

\* constructor: the document service holds documents whose load statements
\* form no cycle
ServiceInit ==
    /\ documents \in {docs \in [Uris -> UNION {Texts(uri) : uri \in Uris}] :
                         /\ \A uri \in Uris : docs[uri] \in Texts(uri)
                         /\ ~cyclic(docs)}
    /\ documentInfos = [uri \in Uris |-> DocumentInfo(NoTable, {})]
    /\ symbolTables = <<>>
    /\ nextTable = 1
    /\ validations = 0
    /\ lastCall = [op |-> "constructor"]

ServiceNext == ValidateDocument \/ GetInfo

InitService ==
    ParserIdle /\ ScopeIdle /\ ResolverIdle /\ ServiceInit /\ DocsIdle
        /\ TypesIdle /\ PositionsIdle

SpecService == InitService /\ [][ServiceNext]_vars

(***************************************************************************)
(* DOCUMENT SERVICE (services/documentService.ts)                          *)
(*                                                                         *)
(* clientDocs and serverDocs are the two maps of the service.  A load is   *)
(* an async function: it runs up to its await in one step (LoadDocument,   *)
(* LoadDocumentFromScript) and from the await to its return in a second    *)
(* one (LoadResumes), so that calls overlap as they do in the event loop.  *)
(* The document loader is the environment: what it resolves with, or that  *)
(* it rejects, is chosen when the call resumes.  A text document is its    *)
(* uri, its text and the identity of the object; language id and version   *)
(* are left out.                                                           *)
(***************************************************************************)
\* the texts of the documents
DocTexts == {"print 1.", "print 2."}

\* Map.get(key): the document under the key, none without entry
get(map, key) == IF key \in DOMAIN map THEN map[key] ELSE NoDocument

\* getDocument(uri): the client's document under the normalized uri, else
\* the server's
getDocument(uri) ==
    LET normalized == normalizeExtensions(uri)
    IN  IF normalized = NoUri THEN NoDocument
        ELSE IF get(clientDocs, normalized) # NoDocument
             THEN get(clientDocs, normalized)
        ELSE get(serverDocs, normalized)

\* the ranges of the run statements that load a script
CallerRanges == {"0:0-0:10", "3:0-3:10"}

\* no range: a load that no run statement asked for
NoRange == ""

\* no diagnostic
NoDiagnostic == createDiagnostic(NoRange, <<>>, "", 0)

\* what a load call returns: a document, undefined, or a diagnostic
Returned(tag, document) ==
    [tag |-> tag, document |-> document, diagnostic |-> NoDiagnostic]

\* loadError(range, path): the diagnostic of a script that cannot be loaded
loadError(range, path) ==
    [tag |-> "diagnostic", document |-> NoDocument,
     diagnostic |-> createDiagnostic(range,
                        <<"Unable to load script at", path>>, "Information", 0)]

\* a call of loadDocument or loadDocumentFromScript: the normalized uri it
\* is about, where it stands, what it returned, whether it invoked the
\* loader, and the calls for the same uri that were awaiting when it began
Call(op, caller, requested, uri, state, result, invoked, overlaps) ==
    [op |-> op, caller |-> caller, requested |-> requested, uri |-> uri,
     state |-> state, result |-> result, invoked |-> invoked,
     overlaps |-> overlaps]

\* the calls that await the loader for `uri`
awaiting(uri) ==
    {i \in 1..Len(loadCalls) :
        loadCalls[i].state = "awaiting" /\ loadCalls[i].uri = uri}

\* the events so far: load calls and notifications that reached a handler
docEvents ==
    Len(loadCalls) + Len(changeHandled) + Len(closeHandled) + Len(cacheRuns)

\* a ready() that does not look at the volume 0 uri
alwaysReady == TRUE

\* ready(): the path resolver has a volume 0 uri
ready == docReady

\* a failing load that returns undefined whoever asked
loadFailedSilently(op, caller, path) == Returned("undefined", NoDocument)

\* what a load returns when the uri cannot be normalized or the loader
\* rejects: undefined from loadDocument, the diagnostic from
\* loadDocumentFromScript
loadFailed(op, caller, path) ==
    IF op = "loadDocument" THEN Returned("undefined", NoDocument)
    ELSE loadError(caller, path)

\* a cache lookup that finds nothing
notCached(normalized) == NoDocument

\* the cache lookup of a load: the server's document under the normalized uri
cached(normalized) == serverDocs[normalized]

\* a load up to its await, or to its return when it returns before
loadBegins(op, caller, uri) ==
    LET normalized == IF uri = NoUri THEN NoUri ELSE normalizeExtensions(uri)
        returns(result) ==
            /\ loadCalls' = Append(loadCalls,
                   Call(op, caller, uri, normalized, "returned", result, FALSE,
                        awaiting(normalized)))
            /\ UNCHANGED loaderCalls
    IN  /\ docEvents < MaxDocEvents
        /\ IF ~ready THEN returns(Returned("undefined", NoDocument))
           ELSE IF normalized = NoUri THEN returns(loadFailed(op, caller, uri))
           ELSE IF cached(normalized) # NoDocument
                THEN returns(Returned("document", cached(normalized)))
           ELSE /\ loaderCalls' = [loaderCalls EXCEPT ![normalized] = @ + 1]
                /\ loadCalls' = Append(loadCalls,
                       Call(op, caller, uri, normalized, "awaiting",
                            Returned("undefined", NoDocument), TRUE,
                            awaiting(normalized)))
        /\ UNCHANGED <<clientDocs, serverDocs, docReady, nextDocument,
                       changeHandled, closeHandled, latestText, cacheRuns>>
        /\ UNCHANGED outsideDocs

\* loadDocument(uri)
LoadDocument ==
    \E uri \in DocUris : loadBegins("loadDocument", NoRange, uri)

\* loadDocumentFromScript(caller, kosPath): the path resolver turns the path
\* into a uri, or into none
LoadDocumentFromScript ==
    \E caller \in CallerRanges, uri \in DocUris \cup {NoUri} :
        loadBegins("loadDocumentFromScript", caller, uri)

\* the loader resolves with `text`: the document is created, cached and
\* returned
loadResolved(i, text) ==
    LET textDocument == TextDocument(loadCalls[i].uri, text, nextDocument)
    IN  /\ serverDocs' = [serverDocs EXCEPT ![loadCalls[i].uri] = textDocument]
        /\ nextDocument' = nextDocument + 1
        /\ loadCalls' = [loadCalls EXCEPT
               ![i].state = "returned",
               ![i].result = Returned("document", textDocument)]

\* the loader rejects: the catch block
loadRejected(i) ==
    /\ loadCalls' = [loadCalls EXCEPT
           ![i].state = "returned", ![i].result = loadFailed(loadCalls[i].op, loadCalls[i].caller,
                                   loadCalls[i].requested)]
    /\ UNCHANGED <<serverDocs, nextDocument>>

\* a load from its await to its return
LoadResumes ==
    \E i \in 1..Len(loadCalls) :
        /\ loadCalls[i].state = "awaiting"
        /\ \/ \E text \in DocTexts : loadResolved(i, text)
           \/ loadRejected(i)
        /\ UNCHANGED <<clientDocs, docReady, loaderCalls, changeHandled,
                       closeHandled, latestText, cacheRuns>>
        /\ UNCHANGED outsideDocs

\* a call of a handler
Handled(uri, text) == [uri |-> uri, text |-> text]

\* onDidOpenTextDocument
DidOpen ==
    \E uri \in DocUris, text \in DocTexts :
        /\ docEvents < MaxDocEvents
        /\ clientDocs' = [clientDocs EXCEPT
               ![uri] = TextDocument(uri, text, nextDocument)]
        /\ nextDocument' = nextDocument + 1
        /\ changeHandled' = Append(changeHandled, Handled(uri, text))
        /\ latestText' = [latestText EXCEPT ![uri] = text]
        /\ UNCHANGED <<serverDocs, docReady, loadCalls, loaderCalls,
                       closeHandled, cacheRuns>>
        /\ UNCHANGED outsideDocs

\* TextDocument.applyEdits for the edits of one change: a change with a
\* range replaces the text, a change without one is skipped
applyEdits(document, ranged, newText) ==
    IF ranged THEN newText ELSE document.text

\* onDidChangeTextDocument
DidChange ==
    \E uri \in DocUris, ranged \in BOOLEAN, newText \in DocTexts :
        LET document == clientDocs[uri]
            text == applyEdits(document, ranged, newText)
        IN  /\ docEvents < MaxDocEvents
            /\ document # NoDocument
            /\ clientDocs' = [clientDocs EXCEPT
                   ![document.uri] = TextDocument(document.uri, text, nextDocument)]
            /\ nextDocument' = nextDocument + 1
            /\ changeHandled' = Append(changeHandled, Handled(document.uri, text))
            /\ latestText' = [latestText EXCEPT ![uri] = newText]
            /\ UNCHANGED <<serverDocs, docReady, loadCalls, loaderCalls,
                           closeHandled, cacheRuns>>
            /\ UNCHANGED outsideDocs

\* onDidCloseTextDocument
DidClose ==
    \E uri \in DocUris :
        LET document == clientDocs[uri]
        IN  /\ docEvents < MaxDocEvents
            /\ clientDocs' = [clientDocs EXCEPT ![uri] = NoDocument]
            /\ serverDocs' = IF document # NoDocument
                             THEN [serverDocs EXCEPT ![uri] = document]
                             ELSE serverDocs
            /\ closeHandled' = Append(closeHandled, uri)
            /\ UNCHANGED <<docReady, loadCalls, loaderCalls, nextDocument,
                           changeHandled, latestText, cacheRuns>>
            /\ UNCHANGED outsideDocs

\* the files of volume 0 that loadDirectory yields
Directory == {Uri(<<"/doc1">>, ".ks")}

\* setVolume0Uri(uri): the path resolver gets its volume 0 uri and a
\* cacheDocuments run begins, which awaits the first file of the directory
SetVolume0Uri ==
    /\ docEvents < MaxDocEvents
    /\ Len(cacheRuns) < MaxVolumes
    /\ docReady' = TRUE
    /\ cacheRuns' = Append(cacheRuns, Directory)
    /\ UNCHANGED <<clientDocs, serverDocs, loadCalls, loaderCalls,
                   nextDocument, changeHandled, closeHandled, latestText>>
    /\ UNCHANGED outsideDocs

\* one turn of the loop of cacheDocuments: loadDirectory yields a file,
\* which is stored unless the client holds its uri, or it rejects, which
\* ends the run
CacheDocuments ==
    \E i \in 1..Len(cacheRuns) :
        /\ cacheRuns[i] # {}
        /\ \/ \E uri \in cacheRuns[i], text \in DocTexts :
                 /\ cacheRuns' = [cacheRuns EXCEPT ![i] = @ \ {uri}]
                 /\ nextDocument' = nextDocument + 1
                 /\ serverDocs' =
                        IF clientDocs[uri] = NoDocument
                        THEN [serverDocs EXCEPT
                                 ![uri] = TextDocument(uri, text, nextDocument)]
                        ELSE serverDocs
           \/ /\ cacheRuns' = [cacheRuns EXCEPT ![i] = {}]
              /\ UNCHANGED <<serverDocs, nextDocument>>
        /\ UNCHANGED <<clientDocs, docReady, loadCalls, loaderCalls,
                       changeHandled, closeHandled, latestText>>
        /\ UNCHANGED outsideDocs

\* the service after its constructor, with or without a volume 0 uri
DocsInit ==
    /\ clientDocs = [uri \in UriKeys |-> NoDocument]
    /\ serverDocs = [uri \in UriKeys |-> NoDocument]
    /\ docReady \in BOOLEAN
    /\ loadCalls = <<>>
    /\ loaderCalls = [uri \in UriKeys |-> 0]
    /\ nextDocument = 1
    /\ changeHandled = <<>>
    /\ closeHandled = <<>>
    /\ latestText = [uri \in UriKeys |-> ""]
    /\ cacheRuns = <<>>

DocsNext ==
    LoadDocument \/ LoadDocumentFromScript \/ LoadResumes \/ DidOpen
        \/ DidChange \/ DidClose \/ SetVolume0Uri \/ CacheDocuments

InitDocs ==
    ParserIdle /\ ScopeIdle /\ ResolverIdle /\ ServiceIdle /\ DocsInit
        /\ TypesIdle /\ PositionsIdle

SpecDocs == InitDocs /\ [][DocsNext]_vars

(***************************************************************************)
(* TYPE ENGINE: the hierarchy of the types (typeChecker/types/vessel/      *)
(* stage.ts, class GenericType)                                            *)
(*                                                                         *)
(* A type is named by its name; superType, coercibleTypes and suffixes     *)
(* hold the fields of every type.  The catalog declares no cyclic          *)
(* supertype chain, so addSuper is called with acyclic arguments only.     *)
(***************************************************************************)
\* the arguments of one addSuffixes call: one or two [name, type] pairs
SuffixArgs ==
    UNION {[1..n -> SuffixNames \X Types] : n \in 1..MaxSuffixes}

\* isSubtype looking at the type itself and its direct supertype only
isDirectSubtype(this, type) ==
    type = this \/ superType[this] = type

\* the n-th type of the supertype chain that starts at `this` (the 0-th is
\* `this`), NoType past its end
RECURSIVE ancestorAt(_, _)
ancestorAt(this, n) ==
    IF n = 0 THEN this
    ELSE IF ancestorAt(this, n - 1) = NoType THEN NoType
    ELSE superType[ancestorAt(this, n - 1)]

\* isSubtype(type) of `this`
RECURSIVE isSubtype(_, _)
isSubtype(this, type) ==
    IF type = this THEN TRUE
    ELSE IF superType[this] = NoType THEN FALSE
    ELSE isSubtype(superType[this], type)

\* canCoerce looking at the type itself only
canCoerceOwn(this, type) ==
    type = this \/ type \in coercibleTypes[this]

\* canCoerce(type) of `this`
RECURSIVE canCoerce(_, _)
canCoerce(this, type) ==
    IF type = this THEN TRUE
    ELSE IF type \in coercibleTypes[this] THEN TRUE
    ELSE IF superType[this] = NoType THEN FALSE
    ELSE canCoerce(superType[this], type)

\* getSuffix looking at the type itself only
getOwnSuffix(this, name) == suffixes[this][name]

\* getSuffix(name) of `this`
RECURSIVE getSuffix(_, _)
getSuffix(this, name) ==
    LET own == suffixes[this][name]
    IN  IF own # NoType THEN own
        ELSE IF superType[this] = NoType THEN NoType
        ELSE getSuffix(superType[this], name)

\* addSuper(type) of `this`
addSuper(this, type) ==
    /\ typeCalls < MaxTypeCalls
    /\ typeCalls' = typeCalls + 1
    /\ IF superType[this] # NoType
       THEN /\ typeReturned' = TypeCall("addSuper", <<this, type>>, TRUE,
                                        NoOperator)
            /\ UNCHANGED superType
       ELSE /\ typeReturned' = TypeCall("addSuper", <<this, type>>, FALSE,
                                        NoOperator)
            /\ superType' = [superType EXCEPT ![this] = type]
    /\ UNCHANGED <<coercibleTypes, suffixes, operators, concreteTypes,
                   nextConcrete, instantiated>>
    /\ UNCHANGED outsideTypes

\* addSuper as the catalog of the types calls it: `this` is no type of the
\* chain of `type`
AddSuper ==
    \E this \in Types, type \in Types :
        ~isSubtype(type, this) /\ addSuper(this, type)

\* the loop of addSuffixes from the i-th pair on: the suffix map it leaves
\* and whether it threw
RECURSIVE addSuffixesLoop(_, _, _)
addSuffixesLoop(map, args, i) ==
    IF i > Len(args) THEN [suffixes |-> map, threw |-> FALSE]
    ELSE IF map[args[i][1]] # NoType THEN [suffixes |-> map, threw |-> TRUE]
    ELSE addSuffixesLoop([map EXCEPT ![args[i][1]] = args[i][2]], args, i + 1)

\* addSuffixes(...suffixes) of `this`
AddSuffixes ==
    \E this \in Types, args \in SuffixArgs :
        LET added == addSuffixesLoop(suffixes[this], args, 1)
        IN  /\ typeCalls < MaxTypeCalls
            /\ typeCalls' = typeCalls + 1
            /\ suffixes' = [suffixes EXCEPT ![this] = added.suffixes]
            /\ typeReturned' = TypeCall("addSuffixes", <<>>, added.threw, NoOperator)
            /\ UNCHANGED <<superType, coercibleTypes, operators, concreteTypes,
                           nextConcrete, instantiated>>
            /\ UNCHANGED outsideTypes

\* declaring that `this` coerces to `type`: adds to the coercible set
AddCoercion ==
    \E this \in Types, type \in Types :
        /\ typeCalls < MaxTypeCalls
        /\ typeCalls' = typeCalls + 1
        /\ coercibleTypes' = [coercibleTypes EXCEPT ![this] = @ \cup {type}]
        /\ typeReturned' = TypeCall("addCoercion", <<>>, FALSE, NoOperator)
        /\ UNCHANGED <<superType, suffixes, operators, concreteTypes,
                       nextConcrete, instantiated>>
        /\ UNCHANGED outsideTypes

\* the types after their constructors
TypesInit == TypesIdle

TypesNext == AddSuper \/ AddSuffixes \/ AddCoercion

InitTypes ==
    ParserIdle /\ ScopeIdle /\ ResolverIdle /\ ServiceIdle /\ DocsIdle
        /\ TypesInit /\ PositionsIdle

SpecTypes == InitTypes /\ [][TypesNext]_vars

(***************************************************************************)
(* TYPE ENGINE: addSuper called with any two types, and the queries that   *)
(* walk up the supertypes.  isSubtype, canCoerce and getSuffix call        *)
(* themselves on the supertype; a walk that meets neither the type it      *)
(* looks for nor the end of the chain exhausts the call stack, and the     *)
(* query ends with the engine's RangeError.  No suffix and no coercion is  *)
(* declared here.                                                          *)
(***************************************************************************)
\* the walk up the supertypes of `this` ends: the chain ends, or one of its
\* types is one of `found`
walkEnds(this, found) ==
    \E n \in 0..Cardinality(Types) :
        ancestorAt(this, n) = NoType \/ ancestorAt(this, n) \in found

\* a query on `this` that returns at the first type of `found`
query(op, this, args, found) ==
    /\ typeCalls < MaxTypeCalls
    /\ typeCalls' = typeCalls + 1
    /\ typeReturned' = TypeCall(op, <<this>> \o args, ~walkEnds(this, found),
                                NoOperator)
    /\ UNCHANGED <<superType, coercibleTypes, suffixes, operators,
                   concreteTypes, nextConcrete, instantiated>>
    /\ UNCHANGED outsideTypes

\* addSuper(type) of `this`, for any two types
AddSuperOfAny == \E this \in Types, type \in Types : addSuper(this, type)

\* isSubtype(type) of `this`: returns at `type`
IsSubtype ==
    \E this \in Types, type \in Types :
        query("isSubtype", this, <<type>>, {type})

\* canCoerce(type) of `this`: returns at `type` and at a type that coerces
\* to it
CanCoerce ==
    \E this \in Types, type \in Types :
        query("canCoerce", this, <<type>>,
              {type} \cup {other \in Types : type \in coercibleTypes[other]})

\* getSuffix(name) of `this`: returns at a type that has the suffix
GetSuffix ==
    \E this \in Types, name \in SuffixNames :
        query("getSuffix", this, <<name>>,
              {other \in Types : suffixes[other][name] # NoType})

SupersNext == AddSuperOfAny \/ IsSubtype \/ CanCoerce \/ GetSuffix

InitSupers ==
    ParserIdle /\ ScopeIdle /\ ResolverIdle /\ ServiceIdle /\ DocsIdle
        /\ TypesInit /\ PositionsIdle

SpecSupers == InitSupers /\ [][SupersNext]_vars

(***************************************************************************)
(* TYPE ENGINE: the operators of a type and the concrete types of a        *)
(* generic type (stage.ts, classes GenericType and GenericVariadicType)    *)
(*                                                                         *)
(* operators is the operator map of one type; an operator kind without     *)
(* entry and one with an empty list are the same, since addOperator        *)
(* creates the list only to push onto it.                                  *)
(***************************************************************************)
\* the other operands of the operators: none, or a type
Operands == {NoType, "structure", "stage"}

\* the operators that are registered
Operators == {Operator(other, type) : other \in Operands, type \in {"scalar", "stage"}}

\* the arguments of one addOperator call: one or two [kind, operator] pairs
OperatorArgs ==
    UNION {[1..n -> OperatorKinds \X Operators] : n \in 1..MaxOperators}

\* the positions of `list` whose operator has the other operand `other`
matching(list, other) ==
    {j \in 1..Len(list) : list[j].otherOperand = other}

\* the loop of addOperator without the check for an existing operator
RECURSIVE addOperatorUnchecked(_, _, _)
addOperatorUnchecked(map, args, i) ==
    IF i > Len(args) THEN [operators |-> map, threw |-> FALSE]
    ELSE addOperatorUnchecked(
             [map EXCEPT ![args[i][1]] = Append(@, args[i][2])], args, i + 1)

\* the loop of addOperator from the i-th pair on: the operator map it leaves
\* and whether it threw
RECURSIVE addOperatorLoop(_, _, _)
addOperatorLoop(map, args, i) ==
    IF i > Len(args) THEN [operators |-> map, threw |-> FALSE]
    ELSE LET kind == args[i][1]
             operator == args[i][2]
             operatorsKind == map[kind]
         IN  IF matching(operatorsKind, operator.otherOperand) # {}
             THEN [operators |-> map, threw |-> TRUE]
             ELSE addOperatorLoop(
                      [map EXCEPT ![kind] = Append(operatorsKind, operator)],
                      args, i + 1)

\* addOperator(...operators)
AddOperator ==
    \E args \in OperatorArgs :
        LET added == addOperatorLoop(operators, args, 1)
        IN  /\ typeCalls < MaxOperatorCalls
            /\ typeCalls' = typeCalls + 1
            /\ operators' = added.operators
            /\ typeReturned' = TypeCall("addOperator", args, added.threw, NoOperator)
            /\ UNCHANGED <<superType, coercibleTypes, suffixes, concreteTypes,
                           nextConcrete, instantiated>>
            /\ UNCHANGED outsideTypes

\* getOperator(kind, other): whether it threw and what it returned
getOperator(kind, other) ==
    LET list == operators[kind]
    IN  IF list = <<>> THEN [threw |-> FALSE, result |-> NoOperator]
        ELSE IF matching(list, other) # {}
             THEN [threw |-> FALSE,
                   result |-> list[CHOOSE j \in matching(list, other) :
                                 \A k \in matching(list, other) : j <= k]]
        ELSE [threw |-> TRUE, result |-> NoOperator]

\* a call of getOperator
GetOperator ==
    \E kind \in OperatorKinds, other \in Operands :
        /\ typeCalls < MaxOperatorCalls
        /\ typeCalls' = typeCalls + 1
        /\ typeReturned' = TypeCall("getOperator", <<kind, other>>,
               getOperator(kind, other).threw, getOperator(kind, other).result)
        /\ UNCHANGED <<superType, coercibleTypes, suffixes, operators,
                       concreteTypes, nextConcrete, instantiated>>
        /\ UNCHANGED outsideTypes

\* the classes of the generic types
Generics == {"GenericType", "GenericVariadicType"}

\* a toConcreteType call: the class of the generic type, the type argument,
\* whether it threw, the object it returned
Instantiated(generic, type, threw, result) ==
    [generic |-> generic, type |-> type, threw |-> threw, result |-> result]

\* toConcreteType of the generic type of class `generic`: GenericType's
\* throws, GenericVariadicType's returns the cached object or creates one
toConcreteType(generic, type) ==
    IF generic = "GenericType"
    THEN /\ instantiated' = Append(instantiated,
                Instantiated(generic, type, TRUE, 0))
         /\ UNCHANGED <<concreteTypes, nextConcrete>>
    ELSE LET cache == concreteTypes[type]
         IN  IF cache # 0
             THEN /\ instantiated' = Append(instantiated,
                         Instantiated(generic, type, FALSE, cache))
                  /\ UNCHANGED <<concreteTypes, nextConcrete>>
             ELSE /\ concreteTypes' = [concreteTypes EXCEPT ![type] = nextConcrete]
                  /\ nextConcrete' = nextConcrete + 1
                  /\ instantiated' = Append(instantiated,
                         Instantiated(generic, type, FALSE, nextConcrete))

\* a call of toConcreteType
ToConcreteType ==
    \E generic \in Generics, type \in Types :
        /\ typeCalls < MaxOperatorCalls
        /\ typeCalls' = typeCalls + 1
        /\ toConcreteType(generic, type)
        /\ typeReturned' = TypeCall("toConcreteType", <<generic, type>>,
               generic = "GenericType", NoOperator)
        /\ UNCHANGED <<superType, coercibleTypes, suffixes, operators>>
        /\ UNCHANGED outsideTypes

\* the type and the generic types after their constructors
OperatorsInit == TypesIdle

OperatorsNext == AddOperator \/ GetOperator \/ ToConcreteType

InitOperators ==
    ParserIdle /\ ScopeIdle /\ ResolverIdle /\ ServiceIdle /\ DocsIdle
        /\ OperatorsInit /\ PositionsIdle

SpecOperators == InitOperators /\ [][OperatorsNext]_vars

(***************************************************************************)
(* POSITION UTILITIES (utilities/positionUtils.ts)                         *)
(*                                                                         *)
(* The functions are pure; the specification draws two ranges, each with   *)
(* its start not after its end, and calls rangeIntersection on them in     *)
(* either order.                                                           *)
(***************************************************************************)
Positions ==
    {Position(line, character) : line \in 0..MaxLine,
                                 character \in 0..MaxCharacter}

\* positionEqual
positionEqual(pos1, pos2) ==
    pos1.line = pos2.line /\ pos1.character = pos2.character

\* positionBefore
positionBefore(pos1, pos2) ==
    IF pos1.line < pos2.line THEN TRUE
    ELSE IF pos1.line = pos2.line /\ pos1.character < pos2.character THEN TRUE
    ELSE FALSE

\* positionBeforeEqual
positionBeforeEqual(pos1, pos2) ==
    positionBefore(pos1, pos2) \/ positionEqual(pos1, pos2)

\* the ranges of a document: the start is not after the end
Ranges ==
    {range \in {TextRange(start, end) : start \in Positions, end \in Positions} :
        positionBeforeEqual(range.start, range.end)}

\* rangeContains
rangeContains(range, pos) ==
    IF pos.line < range.start.line THEN FALSE
    ELSE IF /\ pos.line = range.start.line
            /\ pos.character < range.start.character THEN FALSE
    ELSE IF pos.line > range.end.line THEN FALSE
    ELSE IF /\ pos.line = range.end.line
            /\ pos.character > range.end.character THEN FALSE
    ELSE TRUE

\* rangeBefore
rangeBefore(range, pos) ==
    IF pos.line > range.end.line THEN TRUE
    ELSE IF pos.line = range.end.line /\ pos.character > range.end.character
    THEN TRUE
    ELSE FALSE

\* rangeAfter
rangeAfter(range, pos) ==
    IF pos.line < range.start.line THEN TRUE
    ELSE IF /\ pos.line = range.start.line
            /\ pos.character < range.start.character
    THEN TRUE
    ELSE FALSE

\* rangeIntersection; its second test is rangeBefore(range2, range2.end)
rangeIntersection(range1, range2) ==
    IF rangeAfter(range1, range2.end) THEN FALSE
    ELSE IF rangeBefore(range2, range2.end) THEN FALSE
    ELSE TRUE

\* one call of rangeIntersection, on the two ranges in either order
RangeIntersection ==
    /\ Len(intersections) < MaxRangeCalls
    /\ \E i \in 1..2 :
          intersections' =
              Append(intersections,
                     [range1 |-> ranges[i], range2 |-> ranges[3 - i],
                      result |-> rangeIntersection(ranges[i], ranges[3 - i])])
    /\ UNCHANGED ranges
    /\ UNCHANGED outsidePositions

PositionsInit ==
    /\ ranges \in Ranges \X Ranges
    /\ intersections = <<>>

PositionsNext == RangeIntersection

InitPositions ==
    ParserIdle /\ ScopeIdle /\ ResolverIdle /\ ServiceIdle /\ DocsIdle
        /\ TypesIdle /\ PositionsInit

SpecPositions == InitPositions /\ [][PositionsNext]_vars

(***************************************************************************)
(* CLAIMS ABOUT THE PARSER                                                 *)
(***************************************************************************)
\* the index of the eof token
EofIndex == Len(tokens) - 1

\* the elements of a sequence
Range(seq) == {seq[i] : i \in 1..Len(seq)}

C2_SynchronizeStops ==
    \A i \in 1..Len(syncLog) :
        \/ syncLog[i].at = EofIndex
        \/ tokenAt(syncLog[i].at - 1) = "period"
        \/ tokenAt(syncLog[i].at) \in SyncTokens

\* C2 witness: a synchronization that skipped tokens and stopped inside the
\* stream in front of a statement keyword
C2_Witness ==
    \E i \in 1..Len(syncLog) :
        /\ syncLog[i].at >= syncLog[i].from + 2
        /\ syncLog[i].at < EofIndex
        /\ tokenAt(syncLog[i].at - 1) # "period"
        /\ tokenAt(syncLog[i].at) \in {"run", "runPath", "print", "if"}

\* C3: the top-level instruction list parse() returns has one node per
\* iteration of its loop, in order; the iterations tile the stream; an
\* iteration that raised a ParseError gave exactly the Invalid node of the
\* tokens from its first token to the cursor after synchronization, and any
\* other iteration gave a node that is not Invalid.
C3_OneNodePerStatement ==
    (parserPc = "returned") =>
        /\ Len(parseResult.script) = Len(attempts)
        /\ \A i \in 1..Len(attempts) :
              /\ attempts[i].start = (IF i = 1 THEN 0 ELSE attempts[i - 1].end)
              /\ attempts[i].end > attempts[i].start
              /\ IF attempts[i].raised
                 THEN parseResult.script[i] =
                          [tag |-> "Invalid", start |-> attempts[i].start,
                           end |-> attempts[i].end, kids |-> <<>>]
                 ELSE parseResult.script[i].tag # "Invalid"
        /\ (Len(attempts) > 0 => attempts[Len(attempts)].end = EofIndex)

\* C3 witness: a parsed statement, then a failed region of several tokens
\* that does not start at the first token, then a parsed statement again
C3_Witness ==
    /\ parserPc = "returned"
    /\ Len(attempts) >= 3
    /\ ~attempts[1].raised
    /\ attempts[2].raised
    /\ attempts[2].end >= attempts[2].start + 2
    /\ ~attempts[3].raised

\* C4: a brace block that lacks its closing brace raises one ParseError whose
\* inner list is exactly the errors collected from the statements of the
\* block, in order; the cursor is then at the end of the input; the parse
\* yields at least one syntax error; and the inner errors are not also
\* elements of the parseErrors list that parse() returns.
C4_MissingCloseBundlesInner ==
    \A i \in 1..Len(blockLog) :
        /\ blockLog[i].error.inner = blockLog[i].collected
        /\ blockLog[i].at = EofIndex
        /\ (parserPc = "returned") =>
              /\ Len(parseResult.parseErrors) >= 1
              /\ \A e \in Range(blockLog[i].error.inner) :
                    e \notin Range(parseResult.parseErrors)

\* C4 witness: parse() returned after an anonymous function found no closing
\* brace although its statements had given errors
C4_Witness ==
    /\ parserPc = "returned"
    /\ \E i \in 1..Len(blockLog) :
          /\ blockLog[i].failed = "Expr.AnonymousFunction"
          /\ blockLog[i].collected # <<>>

\* the run instructions of a syntax tree, in source order
RECURSIVE RunNodes(_)
RECURSIVE RunNodesOf(_)
RunNodesOf(nodes) ==
    IF nodes = <<>> THEN <<>>
    ELSE RunNodes(Head(nodes)) \o RunNodesOf(Tail(nodes))

RunNodes(node) ==
    IF node.tag \in {"Run", "RunPath", "RunPathOnce"}
    THEN <<node>> \o RunNodesOf(node.kids)
    ELSE RunNodesOf(node.kids)

C37_RunInstsAreTreeNodes ==
    (parserPc = "returned") =>
        Range(parseResult.runInsts) \subseteq Range(RunNodesOf(parseResult.script))

\* parse() returned a run instruction of a block without closing brace: the
\* block is an Invalid node that spans the instruction, which is in the list
\* and not in the tree
C37_Witness ==
    /\ parserPc = "returned"
    /\ \E i \in 1..Len(parseResult.runInsts) :
          /\ parseResult.runInsts[i] \notin Range(RunNodesOf(parseResult.script))
          /\ \E j \in 1..Len(parseResult.script) :
                /\ parseResult.script[j].tag = "Invalid"
                /\ parseResult.script[j].start < parseResult.runInsts[i].start
                /\ parseResult.runInsts[i].end <= parseResult.script[j].end

C6_ActivePathMatchesOpenScopes ==
    /\ ~scopeError
    /\ Len(activeScopePath) = openScopes
    /\ openScopes = 0 => activeScopePath = <<>>

\* the outermost endScope has just closed a traversal that went two deep
C6_Witness ==
    /\ lastOp.op = "endScope"
    /\ openScopes = 0
    /\ activeScopePath = <<>>
    /\ \E i \in 1..Len(firstPass) : Len(firstPass[i].path) >= 2

\* C7: after rewindScope, the replay of the first pass's beginScope and
\* endScope calls activates and closes the same nodes (same child-index
\* paths) as the first pass and creates no node; beginScope creates a node
\* only when there is none at the computed index, and the new node is then
\* stored at exactly that index, so the activated path names a node.
C7_ReplayVisitsSameNodes ==
    /\ pass > 1 =>
          /\ Len(replay) <= Len(firstPass)
          /\ \A i \in 1..Len(replay) : replay[i] = firstPass[i]
          /\ lastOp.op = "beginScope" => lastOp.existed
    /\ (lastOp.op = "beginScope" /\ ~lastOp.threw) =>
          /\ Cardinality(DOMAIN rootScope) =
                lastOp.nodes + (IF lastOp.existed THEN 0 ELSE 1)
          /\ ~lastOp.existed => lastOp.stored = lastOp.next
          /\ activeScopePath[Len(activeScopePath)] = lastOp.next
          /\ activeScopePath \in DOMAIN rootScope

\* a second pass has replayed a first pass of two sibling scopes, one of them
\* with a nested scope
C7_Witness ==
    /\ pass = 2
    /\ Len(replay) = Len(firstPass)
    /\ \E i \in 1..Len(replay) : replay[i].path = <<1>>
    /\ \E i \in 1..Len(replay) : Len(replay[i].path) = 2

DeclareOps ==
    {"declareVariable", "declareFunction", "declareLock", "declareParameter"}

\* C8: declaring a name (variable, function, lock or parameter) a second
\* time in the same scope with the same scope kind returns exactly one Error
\* conflict diagnostic at the second declaration's token whose related
\* information points to the first declaration's name token; the scope keeps
\* the first tracker and no tracker is stored for the second token.
C8_RedeclarationConflict ==
    (/\ lastOp.op \in DeclareOps
     /\ ~lastOp.threw
     /\ lastOp.target # NoTracker
     /\ declaredAs[lastOp.target] = lastOp.scopeType) =>
        /\ returned = <<[token |-> lastOp.token, message |-> "already exists",
                         severity |-> "Error", related |-> lastOp.target]>>
        /\ rootScope[selectScope(lastOp.scopeType)][lastOp.name] = lastOp.target
        /\ lastOp.token \notin DOMAIN trackers

\* a lock is declared a second time, as local, in a nested scope
C8_Witness ==
    /\ lastOp.op = "declareLock"
    /\ ~lastOp.threw
    /\ lastOp.scopeType = "local"
    /\ Len(lastOp.path) > 0
    /\ lastOp.target # NoTracker
    /\ declaredAs[lastOp.target] = "local"
    /\ Len(returned) = 1

\* C9: a global declaration of x is rejected as a redeclaration only when
\* the file's global scope already declares x; an x that only an enclosing
\* local scope or only a dependency's table declares does not make the
\* global declaration a conflict.
C9_GlobalConflictOnlyInGlobalScope ==
    (/\ lastOp.op \in DeclareOps
     /\ ~lastOp.threw
     /\ lastOp.scopeType = "global"
     /\ \E d \in Range(returned) : d.message = "already exists") =>
        lastOp.root # NoTracker

\* x is declared as global inside a nested scope that declares a local x,
\* while the global scope does not declare x
C9_Witness ==
    /\ lastOp.op \in DeclareOps
    /\ ~lastOp.threw
    /\ lastOp.scopeType = "global"
    /\ Len(lastOp.path) > 0
    /\ lastOp.innermost # NoTracker
    /\ lastOp.root = NoTracker

\* the trackers of `name` in the scopes that enclose the node at `path`
enclosingTrackers(path, name) ==
    {rootScope[SubSeq(path, 1, i)][name] : i \in 0..(Len(path) - 1)}
        \ {NoTracker}

returnedAt(id) == {i \in DOMAIN returned : returned[i].token = id}

\* C11: endScope pops exactly one level of the active path; for each
\* variable declared in the closed scope with no recorded usage it returns
\* one 'was not used' error diagnostic at the variable's name token, and for
\* a variable with at least one recorded usage it returns none.
C11_EndScopeReportsUnusedVariables ==
    (lastOp.op = "endScope" /\ ~lastOp.threw) =>
        /\ Len(lastOp.path) > 0
        /\ activeScopePath = SubSeq(lastOp.path, 1, Len(lastOp.path) - 1)
        /\ \A name \in Names :
              (/\ rootScope[lastOp.path][name] # NoTracker
               /\ trackers[rootScope[lastOp.path][name]].kind = "variable") =>
                  IF Len(trackers[rootScope[lastOp.path][name]].usages) = 0
                  THEN /\ Cardinality(returnedAt(rootScope[lastOp.path][name])) = 1
                       /\ \A i \in returnedAt(rootScope[lastOp.path][name]) :
                             /\ returned[i].message = "was not used"
                             /\ returned[i].severity = "Error"
                  ELSE returnedAt(rootScope[lastOp.path][name]) = {}

\* endScope has closed a scope of two variables, one used and one not
C11_Witness ==
    /\ lastOp.op = "endScope"
    /\ ~lastOp.threw
    /\ \A name \in Names :
          /\ rootScope[lastOp.path][name] # NoTracker
          /\ trackers[rootScope[lastOp.path][name]].kind = "variable"
    /\ \E name \in Names :
          Len(trackers[rootScope[lastOp.path][name]].usages) = 0
    /\ \E name \in Names :
          Len(trackers[rootScope[lastOp.path][name]].usages) > 0
    /\ Len(returned) = 1


\* the trackers of the scope that the last endScope closed
closedTrackers == {rootScope[lastOp.path][name] : name \in Names} \ {NoTracker}

\* C12, as claimed: among the 'was not used' diagnostics of endScope only
\* that of an unused parameter has Error severity; that of an unused lock or
\* variable is a warning.
C12_OnlyParameterIsError ==
    (lastOp.op = "endScope" /\ ~lastOp.threw) =>
        \A i \in DOMAIN returned :
            returned[i].severity =
                IF trackers[returned[i].token].kind = "parameter"
                THEN "Error" ELSE "Warning"

\* C12, as the code has it: every diagnostic of endScope is a 'was not used'
\* diagnostic of Error severity, one for each parameter, variable and
\* uncooked lock of the closed scope that has no usage, and none for a
\* function or a used symbol.
C12_EveryUnusedIsError ==
    (lastOp.op = "endScope" /\ ~lastOp.threw) =>
        /\ \A i \in DOMAIN returned :
              /\ returned[i].severity = "Error"
              /\ returned[i].message = "was not used"
              /\ returned[i].token \in closedTrackers
              /\ trackers[returned[i].token].kind
                    \in {"parameter", "lock", "variable"}
              /\ Len(trackers[returned[i].token].usages) = 0
        /\ \A id \in closedTrackers :
              (/\ trackers[id].kind \in {"parameter", "lock", "variable"}
               /\ trackers[id].kind = "lock" => ~cooked(id)
               /\ Len(trackers[id].usages) = 0) =>
                  Cardinality(returnedAt(id)) = 1

\* endScope has closed a scope of an unused parameter and an unused lock
C12_Witness ==
    /\ lastOp.op = "endScope"
    /\ ~lastOp.threw
    /\ Len(returned) = 2
    /\ {trackers[id].kind : id \in closedTrackers} = {"parameter", "lock"}


\* the depths, 0 for the root, of the active scopes of the last call that
\* define the name it was called on
definingDepths ==
    {d \in 0..Len(lastOp.path) :
        rootScope[SubSeq(lastOp.path, 1, d)][lastOp.name] # NoTracker}

\* the deepest of them
innermostDefining == CHOOSE d \in definingDepths : \A e \in definingDepths : e <= d

\* the dependency tables that define the name of the last call
definingTables ==
    {i \in DOMAIN childSymbolTables :
        childSymbolTables[i][lastOp.name] # NoTracker}

\* C13: a global-or-enclosing lookup (that of useSymbol) returns the tracker
\* of the innermost active scope that defines the name, the root last; only
\* when no active scope defines it are the root scopes of the dependency
\* tables searched, and when none of them defines it nothing is found.  A
\* strictly local lookup (that of a local declaration) finds a tracker
\* exactly when the innermost active scope defines the name, whatever the
\* enclosing scopes and the dependency tables define.
C13_LookupOrder ==
    /\ (lastOp.op = "useSymbol" /\ ~lastOp.threw) =>
          IF definingDepths # {}
          THEN tokenTracker[lastOp.token] =
                  rootScope[SubSeq(lastOp.path, 1, innermostDefining)][lastOp.name]
          ELSE IF definingTables # {}
          THEN tokenTracker[lastOp.token] =
                  childSymbolTables[CHOOSE i \in definingTables :
                                       \A j \in definingTables : i <= j][lastOp.name]
          ELSE /\ lastOp.token \notin DOMAIN tokenTracker
               /\ Len(returned) = 1
               /\ returned[1].message = "may not exist"
    /\ (/\ lastOp.op \in DeclareOps
        /\ ~lastOp.threw
        /\ lastOp.scopeType = "local") =>
          IF lastOp.innermost # NoTracker
          THEN /\ Len(returned) = 1
               /\ returned[1].message = "already exists"
               /\ returned[1].related = lastOp.innermost
          ELSE /\ \A i \in DOMAIN returned : returned[i].message # "already exists"
               /\ rootScope[lastOp.path][lastOp.name] = lastOp.token

\* a use two scopes deep of a name that the root and the enclosing scope
\* define and the innermost scope does not: it resolves to the enclosing one
C13_Witness ==
    /\ lastOp.op = "useSymbol"
    /\ ~lastOp.threw
    /\ Len(lastOp.path) = 2
    /\ definingDepths = {0, 1}
    /\ tokenTracker[lastOp.token] =
          rootScope[SubSeq(lastOp.path, 1, 1)][lastOp.name]


UseOps == {"useSymbol", "useVariable", "useFunction", "useLock",
           "useParameter", "setVariable"}

\* C14: useSymbol, useVariable, useFunction, useLock, useParameter and
\* setVariable do not throw, and on a name that no active scope and no
\* dependency table defines they return one Error 'may not exist' diagnostic
\* at the token, record no usage on any tracker and leave the token's
\* tracker slot, every scope and the dependency tables as they were.
C14_UnresolvedUse ==
    [][lastOp'.op \in UseOps =>
          /\ ~lastOp'.threw
          /\ ~scopeError'
          /\ (definingDepths' = {} /\ definingTables' = {}) =>
                /\ returned' = <<[token |-> lastOp'.token,
                                  message |-> "may not exist",
                                  severity |-> "Error", related |-> 0]>>
                /\ trackers' = trackers
                /\ tokenTracker' = tokenTracker
                /\ lastOp'.token \notin DOMAIN tokenTracker'
                /\ rootScope' = rootScope
                /\ childSymbolTables' = childSymbolTables]_vars

\* setVariable was called in a nested scope on a name that nothing defines,
\* while the other name is defined and has a usage
C14_Witness ==
    /\ lastOp.op = "setVariable"
    /\ ~lastOp.threw
    /\ Len(lastOp.path) > 0
    /\ definingDepths = {}
    /\ definingTables = {}
    /\ Len(returned) = 1
    /\ \E id \in DOMAIN trackers : Len(trackers[id].usages) > 0

\* C34: useFunction(name) returns no diagnostic and records one usage on
\* the tracker exactly when the symbol that the global-or-enclosing lookup
\* finds for the name is a function; when it is a variable, a lock or a
\* parameter, useFunction returns a 'may not exist' diagnostic and records
\* no usage.  lookupFunctionTracker tests isKsVariable, so this is violated.
C34_UseFunctionNeedsFunction ==
    [][(lastOp'.op = "useFunction" /\ ~lastOp'.threw
            /\ lookup(lastOp'.name, "global") # NoTracker) =>
          LET found == lookup(lastOp'.name, "global")
          IN  IF trackers[found].kind = "function"
              THEN /\ returned' = <<>>
                   /\ trackers' = [trackers EXCEPT
                          ![found].usages = Append(@, lastOp'.token)]
              ELSE /\ returned' = <<createDiagnostic(lastOp'.token,
                                         "may not exist", "Error", 0)>>
                   /\ trackers' = trackers]_vars

\* useFunction was called on a name that the lookup resolves to a function,
\* and returned a diagnostic without recording a usage, while a variable
\* has a usage
C34_Witness ==
    /\ lastOp.op = "useFunction"
    /\ ~lastOp.threw
    /\ lookup(lastOp.name, "global") # NoTracker
    /\ trackers[lookup(lastOp.name, "global")].kind = "function"
    /\ trackers[lookup(lastOp.name, "global")].usages = <<>>
    /\ Len(returned) = 1
    /\ lastOp.token \notin DOMAIN tokenTracker

\* the variable of tracker `id` has been the target of setVariable and of no
\* use: a token other than its name token holds the tracker, and the tracker
\* has no usage
onlyAssigned(id) ==
    /\ trackers[id].kind = "variable"
    /\ trackers[id].usages = <<>>
    /\ \E tk \in DOMAIN tokenTracker : tk # id /\ tokenTracker[tk] = id

\* C38: setVariable on a declared variable returns no diagnostic, records
\* the tracker on the token and leaves the trackers as they were (no usage
\* is added); and endScope reports a variable of the closed scope that was
\* only assigned with one 'was not used' diagnostic at its name token.
C38_AssignmentIsNotAUsage ==
    [][/\ (/\ lastOp'.op = "setVariable"
           /\ ~lastOp'.threw
           /\ lookup(lastOp'.name, "global") # NoTracker) =>
              /\ returned' = <<>>
              /\ lastOp'.token \in DOMAIN tokenTracker'
              /\ tokenTracker'[lastOp'.token] = lookup(lastOp'.name, "global")
              /\ trackers' = trackers
       /\ (lastOp'.op = "endScope" /\ ~lastOp'.threw) =>
              \A id \in closedTrackers' :
                 onlyAssigned(id)' =>
                    /\ Cardinality(returnedAt(id)') = 1
                    /\ \A i \in returnedAt(id)' :
                          returned'[i].message = "was not used"]_vars

\* endScope has closed a scope whose variable was assigned and never read,
\* and has reported it
C38_Witness ==
    /\ lastOp.op = "endScope"
    /\ ~lastOp.threw
    /\ \E id \in closedTrackers :
          /\ onlyAssigned(id)
          /\ Cardinality(returnedAt(id)) = 1

\* ---- claims about the function resolver ----
\* the script without its Invalid instructions
withoutInvalid(insts) ==
    SelectSeq(insts, LAMBDA inst : inst.tag # "Inst.Invalid")

\* the declaration of the function of `inst` by token `token` at file scope,
\* given the functions declared so far in the file scope and in the global
\* scope: the error returned and the scopes afterwards
declaredFunction(inst, token, file, global) ==
    IF inst.scope = "local"
    THEN IF file[inst.name] # NoTracker
         THEN [errors |-> <<localConflictError(token, file[inst.name])>>,
               file |-> file, global |-> global]
         ELSE [errors |-> IF global[inst.name] = NoTracker THEN <<>>
                          ELSE <<shadowSymbolHint(token, global[inst.name])>>,
               file |-> [file EXCEPT ![inst.name] = token],
               global |-> global]
    ELSE IF file[inst.name] # NoTracker
         THEN [errors |-> <<localConflictError(token, file[inst.name])>>,
               file |-> file, global |-> global]
         ELSE IF global[inst.name] # NoTracker
         THEN [errors |-> <<localConflictError(token, global[inst.name])>>,
               file |-> file, global |-> global]
         ELSE [errors |-> <<>>, file |-> file,
               global |-> [global EXCEPT ![inst.name] = token]]

\* what resolving the instructions from index i on yields, the functions
\* declared before them being `file` and `global` and their errors `errors`
RECURSIVE resolvedFrom(_, _, _, _, _, _)
resolvedFrom(insts, i, token, file, global, errors) ==
    IF i > Len(insts)
    THEN [threw |-> FALSE, errors |-> errors, file |-> file, global |-> global]
    ELSE IF insts[i].tag # "Decl.Func"
    THEN resolvedFrom(insts, i + 1, token, file, global, errors)
    ELSE IF insts[i].scope \notin {"", "local", "global"}
    THEN [threw |-> TRUE, errors |-> <<>>, file |-> file, global |-> global]
    ELSE resolvedFrom(insts, i + 1, token + 1,
                      declaredFunction(insts[i], token, file, global).file,
                      declaredFunction(insts[i], token, file, global).global,
                      errors \o
                      declaredFunction(insts[i], token, file, global).errors)

\* the outcome of resolving the script with its Invalid instructions removed
resolvedWithoutInvalid ==
    resolvedFrom(withoutInvalid(syntaxTree), 1, 1, EmptyScope, EmptyScope, <<>>)

\* C15: visiting an Invalid instruction changes neither the symbol table nor
\* the resolver's errors and goes on to the next instruction, and resolve()
\* ends with the declarations and errors of the script without its Invalid
\* instructions.
C15_InvalidIsSkipped ==
    [][/\ visiting("Inst.Invalid") =>
            /\ scopeVars' = scopeVars
            /\ resolveErrors' = resolveErrors
            /\ resolverPc' = after(resolverPc.i)
       /\ resolverPc'.step \in {"returned", "caught"} =>
            /\ resolverPc'.step =
                  IF resolvedWithoutInvalid.threw THEN "caught" ELSE "returned"
            /\ resolved' = resolvedWithoutInvalid.errors
            /\ resolverPc'.step = "returned" =>
                  /\ rootScope'[<<>>] = resolvedWithoutInvalid.global
                  /\ rootScope'[<<0>>] = resolvedWithoutInvalid.file]_vars

\* resolve() has returned the error of a declaration that follows an Invalid
\* instruction and conflicts with a declaration before it
C15_Witness ==
    /\ resolverPc.step = "returned"
    /\ resolved # <<>>
    /\ Len(syntaxTree) = 3
    /\ syntaxTree[1].tag = "Decl.Func"
    /\ syntaxTree[2].tag = "Inst.Invalid"
    /\ syntaxTree[3].tag = "Decl.Func"

\* ---- claims about exceptions ----
\* C16: an exception that is no ParseError inside parse() ends it with an
\* empty script, no parse errors and no run instructions, and an exception
\* inside resolve() (an unexpected scope token, a builder call that throws)
\* ends it with an empty error list; neither reaches the caller.
C16_ExceptionsReturnEmpty ==
    [][/\ parserPc' # "thrown"
       /\ resolverPc'.step # "thrown"
       /\ ParseThrows =>
             /\ parserPc' = "caught"
             /\ parseResult' = [parseErrors |-> <<>>, runInsts |-> <<>>,
                                script |-> <<>>]
       /\ (/\ visiting("Decl.Func")
           /\ syntaxTree[resolverPc.i].scope \notin {"", "local", "global"}) =>
             /\ resolverPc'.step = "caught"
             /\ resolved' = <<>>
       /\ (ResolveThrows \/ (resolverPc.step # "caught" /\ scopeError')) =>
             /\ resolverPc'.step = "caught"
             /\ resolved' = <<>>
       /\ resolverPc'.step = "caught" => resolved' = <<>>
       /\ parserPc' = "caught" =>
             parseResult' = [parseErrors |-> <<>>, runInsts |-> <<>>,
                             script |-> <<>>]]_vars

\* parse() caught an exception after it had parsed an instruction with an
\* error, and resolve() caught one after it had declared a function
C16_Witness ==
    /\ parserPc = "caught"
    /\ instructions # <<>>
    /\ parseErrors # <<>>
    /\ resolverPc.step = "caught"
    /\ nextToken > 1

\* ---- claims about the analysis service ----
\* C17: a symbol table is in the dependent set of another exactly when that
\* other is in its dependency set, after any sequence of calls.
C17_DependencyEdgesMutual ==
    \A a \in DOMAIN symbolTables : \A b \in DOMAIN symbolTables :
        a \in symbolTables[b].dependentTables
            <=> b \in symbolTables[a].dependencyTables

\* a document was validated again and its new table depends on the table of a
\* document it loads
C17_Witness ==
    /\ lastCall.op = "validateDocument"
    /\ lastCall.previous # NoTable
    /\ symbolTables[lastCall.info.table].dependencyTables # {}

\* the symbol table was replaced by a later one of its document
replaced(id) == documentInfos[symbolTables[id].uri].table # id

\* C18: a replaced symbol table has empty dependency and dependent sets and
\* is in no set of any table, and after validateDocument the info of the
\* document is the one just built, which getInfo returns.
C18_ReplacedTableDetached ==
    /\ \A id \in DOMAIN symbolTables :
          replaced(id) =>
             /\ symbolTables[id].dependencyTables = {}
             /\ symbolTables[id].dependentTables = {}
             /\ \A other \in DOMAIN symbolTables :
                   /\ id \notin symbolTables[other].dependencyTables
                   /\ id \notin symbolTables[other].dependentTables
    /\ lastCall.op = "validateDocument" =>
          /\ documentInfos[lastCall.uri] = lastCall.info
          /\ lastCall.info.table = nextTable - 1
          /\ lastCall.info.table # lastCall.previous
    /\ (lastCall.op = "getInfo" /\ lastCall.previous # NoTable) =>
          /\ lastCall.info = documentInfos[lastCall.uri]
          /\ lastCall.info.table = lastCall.previous

\* a document that another one depends on was validated again: its new table
\* has the dependent, its previous table is replaced
C18_Witness ==
    /\ lastCall.op = "validateDocument"
    /\ lastCall.previous # NoTable
    /\ replaced(lastCall.previous)
    /\ symbolTables[lastCall.info.table].dependentTables # {}

\* C19: validating a document that loads a document without info analyzes
\* that document and links the two tables before the calls are resolved: the
\* loaded document has an info afterwards, its table is a dependency of the
\* new table and has it as a dependent, and no function it defines is
\* reported.
C19_LoadedDocumentAnalyzedFirst ==
    lastCall.op = "validateDocument" =>
        \A b \in documents[lastCall.uri].loads \cap lastCall.uncached :
            /\ documentInfos[b].table # NoTable
            /\ documentInfos[b].table
                   \in symbolTables[lastCall.info.table].dependencyTables
            /\ lastCall.info.table
                   \in symbolTables[documentInfos[b].table].dependentTables
            /\ symbolTables[documentInfos[b].table].defines
                   = documents[b].defines
            /\ lastCall.info.diagnostics \cap documents[b].defines = {}

\* a document that calls a function it does not define was validated with no
\* diagnostic: the function is defined by the document it loads, which had no
\* info before
C19_Witness ==
    /\ lastCall.op = "validateDocument"
    /\ lastCall.info.diagnostics = {}
    /\ \E b \in documents[lastCall.uri].loads \cap lastCall.uncached :
          \E name \in documents[lastCall.uri].calls :
              /\ name \notin documents[lastCall.uri].defines
              /\ name \in documents[b].defines


(***************************************************************************)
(* CLAIMS ABOUT THE DOCUMENT SERVICE                                       *)
(***************************************************************************)
\* call j began while call i was awaiting the loader for the same uri
overlapping(i, j) ==
    /\ j \in 1..Len(loadCalls)
    /\ i \in loadCalls[j].overlaps

\* C21: when a load of a uri begins while another load of the same uri is
\* awaiting the loader, the second call does not invoke the loader again,
\* and once both have returned they have returned the same document.
\* The service keeps no load in flight, so this is violated.
C21_OverlappingLoadsShareOneLoad ==
    \A j \in 1..Len(loadCalls) : \A i \in 1..Len(loadCalls) :
        overlapping(i, j) =>
            /\ ~loadCalls[j].invoked
            /\ (loadCalls[i].state = "returned" /\ loadCalls[j].state = "returned")
                   => loadCalls[i].result = loadCalls[j].result

\* two overlapping loads of one uri have both returned a document
C21_Witness ==
    \E j \in 1..Len(loadCalls) : \E i \in 1..Len(loadCalls) :
        /\ overlapping(i, j)
        /\ loadCalls[i].state = "returned" /\ loadCalls[j].state = "returned"
        /\ loadCalls[i].result.tag = "document"
        /\ loadCalls[j].result.tag = "document"
        /\ loaderCalls[loadCalls[j].uri] = 2

\* the last call of a handler
last(log) == log[Len(log)]

\* C29: while a document is open, clientDocs holds it with the latest text
\* the client sent; every open and change calls the change handler with
\* the uri and that text; a close removes the document from clientDocs,
\* stores it in serverDocs with its latest text, and getDocument(uri)
\* returns that text afterwards.  getDocument looks under the normalized
\* uri while open and close store under the uri as sent, so this is
\* violated.
C29_ClosedDocumentStaysAvailable ==
    [][/\ \A uri \in DocUris :
              clientDocs'[uri] # NoDocument =>
                  clientDocs'[uri].text = latestText'[uri]
       /\ changeHandled' # changeHandled =>
              /\ clientDocs'[last(changeHandled').uri] # NoDocument
              /\ last(changeHandled').text = latestText'[last(changeHandled').uri]
       /\ \A uri \in DocUris :
              (closeHandled' # closeHandled /\ last(closeHandled') = uri
                   /\ clientDocs[uri] # NoDocument) =>
                  /\ clientDocs'[uri] = NoDocument
                  /\ serverDocs'[uri].text = latestText[uri]
                  /\ getDocument(uri)'.text = latestText[uri]]_vars

\* a document was opened, changed and closed, serverDocs holds its latest
\* text, and getDocument does not return it
C29_Witness ==
    /\ closeHandled # <<>>
    /\ Len(changeHandled) >= 2
    /\ \A i \in 1..Len(changeHandled) :
           changeHandled[i].uri = last(closeHandled)
    /\ clientDocs[last(closeHandled)] = NoDocument
    /\ serverDocs[last(closeHandled)].text = latestText[last(closeHandled)]
    /\ latestText[last(closeHandled)] = last(changeHandled).text
    /\ getDocument(last(closeHandled)) = NoDocument

\* call i resumes in this step and returns a document
loadReturns(i) ==
    /\ loadCalls[i].state = "awaiting"
    /\ loadCalls'[i].state = "returned"
    /\ loadCalls'[i].result.tag = "document"

loadFails(i) ==
    /\ loadCalls[i].state = "awaiting"
    /\ loadCalls'[i].state = "returned"
    /\ loadCalls'[i].result.tag # "document"

\* C31: when the loader rejects, loadDocumentFromScript returns a
\* diagnostic of severity Information whose range is the caller's range,
\* loadDocument returns undefined, and neither serverDocs nor clientDocs
\* changes.
C31_FailedLoadCachesNothing ==
    [][\A i \in 1..Len(loadCalls) :
          loadFails(i) =>
              LET result == loadCalls'[i].result
              IN  /\ loadCalls[i].op = "loadDocumentFromScript" =>
                         /\ result.tag = "diagnostic"
                         /\ result.diagnostic.severity = "Information"
                         /\ result.diagnostic.token = loadCalls[i].caller
                  /\ loadCalls[i].op = "loadDocument" =>
                         /\ result.tag = "undefined"
                         /\ result.diagnostic = NoDiagnostic
                  /\ serverDocs' = serverDocs
                  /\ clientDocs' = clientDocs]_vars

\* the loader rejected a load of each kind: the script load returned a
\* diagnostic with the range of its run statement, the other undefined
C31_Witness ==
    \E i \in 1..Len(loadCalls), j \in 1..Len(loadCalls) :
        /\ loadCalls[i].op = "loadDocumentFromScript"
        /\ loadCalls[i].invoked /\ loadCalls[i].state = "returned"
        /\ loadCalls[i].result.tag = "diagnostic"
        /\ loadCalls[i].result.diagnostic.token = "3:0-3:10"
        /\ loadCalls[j].op = "loadDocument"
        /\ loadCalls[j].invoked /\ loadCalls[j].state = "returned"
        /\ loadCalls[j].result.tag = "undefined"
        /\ \A uri \in UriKeys : serverDocs[uri] = NoDocument

\* C32: a load that begins while the volume 0 uri is not set returns
\* undefined, does not invoke the loader and changes neither clientDocs nor
\* serverDocs; once setVolume0Uri has been called, ready() is true.
C32_NotReadyLoadsNothing ==
    [][/\ (Len(loadCalls') > Len(loadCalls) /\ ~docReady) =>
              /\ last(loadCalls').state = "returned"
              /\ last(loadCalls').result = Returned("undefined", NoDocument)
              /\ ~last(loadCalls').invoked
              /\ loaderCalls' = loaderCalls
              /\ clientDocs' = clientDocs
              /\ serverDocs' = serverDocs
       /\ Len(cacheRuns') > Len(cacheRuns) => ready']_vars

\* a script load of a .ks uri was refused before the volume 0 uri was set,
\* and the same load reached the loader afterwards
C32_Witness ==
    \E i \in 1..Len(loadCalls), j \in 1..Len(loadCalls) :
        /\ i < j
        /\ loadCalls[i].op = "loadDocumentFromScript"
        /\ loadCalls[i].uri # NoUri
        /\ loadCalls[i].result = Returned("undefined", NoDocument)
        /\ loadCalls[i].state = "returned" /\ ~loadCalls[i].invoked
        /\ loadCalls[j].op = "loadDocumentFromScript"
        /\ loadCalls[j].requested = loadCalls[i].requested
        /\ loadCalls[j].invoked
        /\ Len(cacheRuns) = 1
        /\ ready

\* C33: a requested uri ending in .ks is loaded and cached under itself,
\* one ending in .ksm or without extension under the uri with .ks in place
\* of its extension; any other extension is rejected without a loader call
\* and with nothing cached; and the normal form of a uri is its own normal
\* form.  normalizeExtensions replaces the first ".ksm" of the whole
\* string, which need not be the extension, so this is violated.
C33_LoadsCacheUnderKsUri ==
    [][/\ (Len(loadCalls') > Len(loadCalls) /\ ready
               /\ last(loadCalls').requested # NoUri) =>
              LET call == last(loadCalls')
              IN  /\ call.uri = extensionReplaced(call.requested)
                  /\ call.uri # NoUri => normalizeExtensions(call.uri) = call.uri
                  /\ call.requested.ext \notin {".ks", ".ksm", ""} =>
                         /\ call.state = "returned"
                         /\ call.result = loadFailed(call.op, call.caller,
                                                     call.requested)
                         /\ ~call.invoked
                         /\ serverDocs' = serverDocs
       /\ \A i \in 1..Len(loadCalls) :
              loadReturns(i) =>
                  get(serverDocs', extensionReplaced(loadCalls[i].requested))
                      = loadCalls'[i].result.document]_vars

\* a load of a .ksm file in a folder whose name contains ".ksm" was cached
\* under a uri that still ends in .ksm
C33_Witness ==
    \E i \in 1..Len(loadCalls) :
        /\ loadCalls[i].requested.ext = ".ksm"
        /\ loadCalls[i].result.tag = "document"
        /\ loadCalls[i].uri.ext = ".ksm"
        /\ serverDocs[loadCalls[i].uri] = loadCalls[i].result.document
        /\ normalizeExtensions(loadCalls[i].uri) # loadCalls[i].uri

\* C39: no uri has a document in clientDocs and one in serverDocs at the
\* same time, and getDocument(uri) returns the client's document whenever
\* clientDocs holds one for the uri.  An open leaves serverDocs as it is
\* and a load does not look at clientDocs, so this is violated.
C39_ClientAndServerDocsDisjoint ==
    \A uri \in UriKeys :
        /\ ~(clientDocs[uri] # NoDocument /\ serverDocs[uri] # NoDocument)
        /\ clientDocs[uri] # NoDocument => getDocument(uri) = clientDocs[uri]

\* the client reopened a document it had closed: both maps hold the uri,
\* with different documents
C39_Witness ==
    \E uri \in UriKeys :
        /\ Len(changeHandled) = 2
        /\ closeHandled = <<uri>>
        /\ loadCalls = <<>> /\ cacheRuns = <<>>
        /\ clientDocs[uri] # NoDocument
        /\ serverDocs[uri] # NoDocument
        /\ clientDocs[uri] # serverDocs[uri]
        /\ getDocument(uri) = clientDocs[uri]

(***************************************************************************)
(* CLAIMS ABOUT THE TYPE ENGINE                                            *)
(***************************************************************************)
\* the positions of the supertype chain that starts at `this`
chainPositions(this) ==
    {n \in 0..Cardinality(Types) : ancestorAt(this, n) # NoType}

\* C23: isSubtype is reflexive and transitive, and A.isSubtype(B) holds
\* exactly when B is A or one of the types of A's supertype chain.
C23_SubtypeIsChainMembership ==
    \A a \in Types, b \in Types, c \in Types :
        /\ isSubtype(a, a)
        /\ (isSubtype(a, b) /\ isSubtype(b, c)) => isSubtype(a, c)
        /\ isSubtype(a, b) <=> (\E n \in chainPositions(a) : ancestorAt(a, n) = b)

\* a chain of three types, and a type that is no subtype of another
C23_Witness ==
    \E a \in Types, b \in Types, c \in Types :
        /\ superType[a] = b /\ superType[b] = c
        /\ isSubtype(a, c)
        /\ ~isSubtype(c, a)

suffixPositions(this, name) ==
    {n \in chainPositions(this) : suffixes[ancestorAt(this, n)][name] # NoType}

\* the least of a nonempty set of numbers
least(S) == CHOOSE n \in S : \A m \in S : n <= m

\* C25: getSuffix(name) on a type returns the suffix of that name of the
\* nearest type of its chain that has one, the type's own before an
\* ancestor's, and nothing when no type of the chain has one.
C25_NearestSuffixWins ==
    \A this \in Types, name \in SuffixNames :
        getSuffix(this, name) =
            IF suffixPositions(this, name) = {} THEN NoType
            ELSE suffixes[ancestorAt(this, least(suffixPositions(this, name)))][name]

\* a type has a suffix of its own that hides a different one of its
\* supertype, and inherits another suffix from it
C25_Witness ==
    \E this \in Types, name \in SuffixNames, other \in SuffixNames :
        /\ superType[this] # NoType
        /\ suffixes[this][name] # NoType
        /\ suffixes[superType[this]][name] # NoType
        /\ suffixes[superType[this]][name] # suffixes[this][name]
        /\ getSuffix(this, name) = suffixes[this][name]
        /\ suffixes[this][other] = NoType
        /\ getSuffix(this, other) # NoType

\* no two operators of one kind have the same other operand
distinctOperands(map) ==
    \A kind \in OperatorKinds :
        \A i \in 1..Len(map[kind]), j \in 1..Len(map[kind]) :
            map[kind][i].otherOperand = map[kind][j].otherOperand => i = j

\* the i-th pair of `args` names a kind and an other operand that `map` or
\* an earlier pair of `args` has already
duplicates(map, args, i) ==
    \/ matching(map[args[i][1]], args[i][2].otherOperand) # {}
    \/ \E k \in 1..(i - 1) :
           /\ args[k][1] = args[i][1]
           /\ args[k][2].otherOperand = args[i][2].otherOperand

\* `list` begins with `prefix`
startsWith(list, prefix) ==
    /\ Len(prefix) <= Len(list)
    /\ \A i \in 1..Len(prefix) : list[i] = prefix[i]

\* C26: every addOperator call leaves the operators of each kind with
\* pairwise different other operands ('no other operand' included); it
\* throws exactly when one of its operators has the kind and other operand
\* of an operator registered before it, and then the operators registered
\* before stay as they were, the operators of the call that precede the
\* duplicate are registered, and the duplicate and those after it are not.
C26_OperatorsStayDistinct ==
    [][typeReturned'.op = "addOperator" =>
          LET args == typeReturned'.args
              duplicating == {i \in 1..Len(args) : duplicates(operators, args, i)}
              registered == IF duplicating = {} THEN 1..Len(args)
                            ELSE 1..(least(duplicating) - 1)
          IN  /\ distinctOperands(operators')
              /\ typeReturned'.threw <=> duplicating # {}
              /\ \A kind \in OperatorKinds :
                     /\ startsWith(operators'[kind], operators[kind])
                     /\ Len(operators'[kind]) = Len(operators[kind]) +
                            Cardinality({i \in registered : args[i][1] = kind})]_vars

\* an addOperator call threw on the second of its two operators, after it
\* had registered the first, and another kind kept its operators
C26_Witness ==
    /\ typeReturned.op = "addOperator"
    /\ typeReturned.threw
    /\ Len(typeReturned.args) = 2
    /\ typeReturned.args[1][1] # typeReturned.args[2][1]
    /\ \E kind \in OperatorKinds : Len(operators[kind]) = 2
    /\ \A kind \in OperatorKinds : operators[kind] # <<>>

\* C27: getOperator(kind, other) returns the registered operator of that
\* kind whose other operand is `other`, and returns nothing, without
\* throwing, when no operator is registered for the pair, whether or not
\* the kind has other operators.  getOperator throws when the kind has
\* operators and none matches, so this is violated.
C27_GetOperatorNeverFails ==
    typeReturned.op = "getOperator" =>
        LET list == operators[typeReturned.args[1]]
            found == matching(list, typeReturned.args[2])
        IN  /\ ~typeReturned.threw
            /\ IF found = {} THEN typeReturned.result = NoOperator
               ELSE \E j \in found : typeReturned.result = list[j]

\* getOperator was asked for a pair without operator while the kind has
\* another operator, and threw
C27_Witness ==
    /\ typeReturned.op = "getOperator"
    /\ operators[typeReturned.args[1]] # <<>>
    /\ matching(operators[typeReturned.args[1]], typeReturned.args[2]) = {}
    /\ typeReturned.threw

\* C28: every toConcreteType call returns an object, two calls on the same
\* generic type with equal arguments return the same object, and two calls
\* with different arguments return different objects.  toConcreteType of
\* GenericType throws, so this is violated.
C28_EqualArgumentsSameObject ==
    \A i \in 1..Len(instantiated), j \in 1..Len(instantiated) :
        /\ ~instantiated[i].threw
        /\ instantiated[i].generic = instantiated[j].generic =>
               (instantiated[i].type = instantiated[j].type
                    <=> instantiated[i].result = instantiated[j].result)

\* a GenericType was instantiated twice with the same argument and threw
\* both times, while a GenericVariadicType returned an object
C28_Witness ==
    \E i \in 1..Len(instantiated), j \in 1..Len(instantiated),
       k \in 1..Len(instantiated) :
        /\ i < j
        /\ instantiated[i].generic = "GenericType"
        /\ instantiated[j].generic = "GenericType"
        /\ instantiated[i].type = instantiated[j].type
        /\ instantiated[i].threw /\ instantiated[j].threw
        /\ instantiated[k].generic = "GenericVariadicType"
        /\ ~instantiated[k].threw
Queries == {"isSubtype", "canCoerce", "getSuffix"}

\* C40: for any sequence of addSuper calls, addSuper on a type that has a
\* supertype throws and leaves the supertypes as they are, and on a type
\* without one sets it; no type is its own ancestor; and so no isSubtype,
\* canCoerce or getSuffix call fails to return.  addSuper does not look at
\* the chain of its argument, so this is violated.
C40_SupertypesFormNoCycle ==
    /\ [][typeReturned'.op = "addSuper" =>
             IF superType[typeReturned'.args[1]] # NoType
             THEN typeReturned'.threw /\ superType' = superType
             ELSE /\ ~typeReturned'.threw
                  /\ superType' = [superType EXCEPT ![typeReturned'.args[1]] =
                                                       typeReturned'.args[2]]]_vars
    /\ [](\A this \in Types :
             \A n \in 1..Cardinality(Types) : ancestorAt(this, n) # this)
    /\ [](typeReturned.op \in Queries => ~typeReturned.threw)

\* two addSuper calls have made two types the supertype of each other, and
\* an isSubtype call on one of them, for a type outside the cycle, did not
\* return
C40_Witness ==
    /\ typeReturned.op = "isSubtype"
    /\ typeReturned.threw
    /\ \E a \in Types, b \in Types :
          /\ a # b
          /\ superType[a] = b
          /\ superType[b] = a
          /\ typeReturned.args[1] = a
          /\ typeReturned.args[2] \notin {a, b}

(***************************************************************************)
(* CLAIMS ABOUT THE POSITION UTILITIES                                     *)
(***************************************************************************)
\* the two ranges have a position in common
sharePosition(range1, range2) ==
    \E pos \in Positions : rangeContains(range1, pos) /\ rangeContains(range2, pos)

\* C35: rangeIntersection(r1, r2) returns true exactly when the two ranges
\* share at least one position, and two calls with the arguments swapped
\* return the same answer.  The second test of rangeIntersection compares
\* range2 with its own end, so this is violated.
C35_IntersectionIsSharedPosition ==
    /\ \A i \in DOMAIN intersections :
          intersections[i].result =
              sharePosition(intersections[i].range1, intersections[i].range2)
    /\ \A i, j \in DOMAIN intersections :
          (/\ intersections[i].range1 = intersections[j].range2
           /\ intersections[i].range2 = intersections[j].range1) =>
              intersections[i].result = intersections[j].result

\* rangeIntersection was called in both orders on a range that ends before
\* the other starts, and answered true in one order and false in the other
C35_Witness ==
    /\ Len(intersections) = 2
    /\ intersections[1].range1 = intersections[2].range2
    /\ intersections[1].range2 = intersections[2].range1
    /\ positionBefore(intersections[1].range1.end, intersections[1].range2.start)
    /\ intersections[1].result
    /\ ~intersections[2].result

====
